---- MODULE Spec2Model ----
(***************************************************************************)
(* PDF-to-PNG renderer of SLD-LLM-JSON: the page-range parser             *)
(* (scripts/render.py parse_pages, src/utils.py parse_page_ranges) and    *)
(* the export (render, render_pdf_to_images) over an explicit filesystem.  *)
(* Text is a sequence of one-character strings, a path is text, a file is  *)
(* a record of its bytes.                                                  *)
(***************************************************************************)
EXTENDS Integers, Sequences, FiniteSets, TLC

\* ------------------------------------------------------------------ bounds
\* longest page specification enumerated character by character
MaxLen == 4
\* largest page count of the enumerated documents
MaxPages == 2
\* number of export invocations in one behaviour
MaxRuns == 2
\* page count of the large document, exported once
BigPages == 100

\* ------------------------------------------------------------------ text
Digits == {"0", "1", "2", "3", "4", "5", "6", "7", "8", "9"}

DigitVal(c) ==
  CASE c = "0" -> 0 [] c = "1" -> 1 [] c = "2" -> 2 [] c = "3" -> 3
    [] c = "4" -> 4 [] c = "5" -> 5 [] c = "6" -> 6 [] c = "7" -> 7
    [] c = "8" -> 8 [] c = "9" -> 9

DigitChar(d) ==
  CASE d = 0 -> "0" [] d = 1 -> "1" [] d = 2 -> "2" [] d = 3 -> "3"
    [] d = 4 -> "4" [] d = 5 -> "5" [] d = 6 -> "6" [] d = 7 -> "7"
    [] d = 8 -> "8" [] d = 9 -> "9"

\* the absent argument (Python None); no text equals it
None == <<"None">>

\* str.isspace on one character
IsSpace(c) == c = " "

\* index of the first occurrence of character c in s, 0 when there is none
RECURSIVE FindFrom(_, _, _)
FindFrom(s, c, i) ==
  IF i > Len(s) THEN 0
  ELSE IF s[i] = c THEN i
  ELSE FindFrom(s, c, i + 1)

Find(s, c) == FindFrom(s, c, 1)

\* index of the last occurrence of character c in s, 0 when there is none
RECURSIVE RFindFrom(_, _, _)
RFindFrom(s, c, i) ==
  IF i < 1 THEN 0
  ELSE IF s[i] = c THEN i
  ELSE RFindFrom(s, c, i - 1)

RFind(s, c) == RFindFrom(s, c, Len(s))

\* "c in s"
Contains(s, c) == Find(s, c) # 0

\* s.split(c): every piece between separators, empty pieces included
RECURSIVE Split(_, _)
Split(s, c) ==
  LET i == Find(s, c) IN
  IF i = 0 THEN <<s>>
  ELSE <<SubSeq(s, 1, i - 1)>> \o Split(SubSeq(s, i + 1, Len(s)), c)

\* s.split(c) with the first two fields kept and the rest dropped
SplitFirst_two_fields(s, c) ==
  IF Find(s, c) = 0 THEN <<s>>
  ELSE <<Split(s, c)[1], Split(s, c)[2]>>

\* s.split(c, 1): cut at the first separator only
SplitFirst(s, c) ==
  LET i == Find(s, c) IN
  IF i = 0 THEN <<s>>
  ELSE <<SubSeq(s, 1, i - 1), SubSeq(s, i + 1, Len(s))>>

RECURSIVE LStrip(_)
LStrip(s) ==
  IF s # <<>> /\ IsSpace(Head(s)) THEN LStrip(Tail(s)) ELSE s

RECURSIVE RStrip(_)
RStrip(s) ==
  IF s # <<>> /\ IsSpace(s[Len(s)]) THEN RStrip(SubSeq(s, 1, Len(s) - 1)) ELSE s

\* s.strip()
Strip(s) == RStrip(LStrip(s))

\* decimal text of a natural number
RECURSIVE NatToStr(_)
NatToStr(n) ==
  IF n < 10 THEN <<DigitChar(n)>>
  ELSE NatToStr(n \div 10) \o <<DigitChar(n % 10)>>

\* str(n) / f"{n}"
IntToStr(n) == IF n < 0 THEN <<"-">> \o NatToStr(0 - n) ELSE NatToStr(n)

\* f"{n}" in place of f"{n:02d}": no padding
Format02d_unpadded(n) == IntToStr(n)

\* f"{n:02d}": sign-aware zero padding to a minimum width of 2
Format02d(n) ==
  LET s == IntToStr(n) IN
  IF Len(s) >= 2 THEN s
  ELSE <<"0">> \o s

\* ------------------------------------------------------------------ int()
\* the digit part of an int literal: digits, single underscores between them
IsDigitBody(s) ==
  /\ s # <<>>
  /\ s[1] \in Digits
  /\ s[Len(s)] \in Digits
  /\ \A i \in 1..Len(s) : s[i] \in Digits \/ s[i] = "_"
  /\ \A i \in 1..(Len(s) - 1) : ~(s[i] = "_" /\ s[i + 1] = "_")

RECURSIVE DigitBodyVal(_, _)
DigitBodyVal(s, acc) ==
  IF s = <<>> THEN acc
  ELSE IF Head(s) = "_" THEN DigitBodyVal(Tail(s), acc)
  ELSE DigitBodyVal(Tail(s), 10 * acc + DigitVal(Head(s)))

\* int(s): surrounding whitespace dropped, an optional sign, then the digits
PyInt(s) ==
  LET t == Strip(s)
      signed == t # <<>> /\ Head(t) \in {"+", "-"}
      body == IF signed THEN Tail(t) ELSE t
  IN IF IsDigitBody(body)
     THEN [ok |-> TRUE,
           val |-> IF signed /\ Head(t) = "-"
                   THEN 0 - DigitBodyVal(body, 0)
                   ELSE DigitBodyVal(body, 0)]
     ELSE [ok |-> FALSE, val |-> 0]

\* ------------------------------------------------------------------ results
NoExc == [type |-> "", msg |-> "", arg |-> <<>>]

Exc(type, msg, arg) == [type |-> type, msg |-> msg, arg |-> arg]

\* what int() raises on text that is no literal
IntLiteralError(s) ==
  Exc("ValueError", "invalid literal for int() with base 10", s)

Returned(v) == [ok |-> TRUE, val |-> v, exc |-> NoExc]

Raised(e) == [ok |-> FALSE, val |-> <<>>, exc |-> e]

\* list(range(a, b + 1))
RangeList(a, b) == [i \in 1..(b - a + 1) |-> a + i - 1]

\* sorted(out) of a set of integers
RECURSIVE Sorted(_)
Sorted(S) ==
  IF S = {} THEN <<>>
  ELSE LET m == CHOOSE x \in S : \A y \in S : x <= y
       IN <<m>> \o Sorted(S \ {m})

\* ------------------------------------------------------------------ resolver
\* render.py:28 without the upper bound on b
parse_pages_bad_range_no_upper(a, b, num_pages) ==
  a < 1 \/ b < 1 \/ a > num_pages \/ a > b

\* render.py:28, the condition that rejects a range a-b
parse_pages_bad_range(a, b, num_pages) ==
  a < 1 \/ b < 1 \/ a > num_pages \/ b > num_pages \/ a > b

\* render.py:30 with range(a, b): the last page of the range left out
parse_pages_range_exclusive(a, b) == a .. (b - 1)

\* render.py:30, the pages a range a-b adds: range(a, b + 1)
parse_pages_range(a, b) == a .. b

\* render.py:33, the condition that rejects a single page p
parse_pages_bad_number(p, num_pages) ==
  p < 1 \/ p > num_pages

\* render.py:23-35, the loop over the comma-separated parts from part i on
RECURSIVE parse_pages_loop(_, _, _, _)
parse_pages_loop(parts, i, out, num_pages) ==
  IF i > Len(parts) THEN Returned(Sorted(out))
  ELSE
    LET part == Strip(parts[i]) IN
    IF Contains(part, "-")
    THEN LET ab == SplitFirst(part, "-")
             a == PyInt(ab[1])
             b == PyInt(ab[2])
         IN IF ~a.ok THEN Raised(IntLiteralError(ab[1]))
            ELSE IF ~b.ok THEN Raised(IntLiteralError(ab[2]))
            ELSE IF parse_pages_bad_range(a.val, b.val, num_pages)
            THEN Raised(Exc("ValueError", "Invalid page range", part))
            ELSE parse_pages_loop(parts, i + 1,
                                  out \cup parse_pages_range(a.val, b.val), num_pages)
    ELSE LET p == PyInt(part)
         IN IF ~p.ok THEN Raised(IntLiteralError(part))
            ELSE IF parse_pages_bad_number(p.val, num_pages)
            THEN Raised(Exc("ValueError", "Invalid page number", IntToStr(p.val)))
            ELSE parse_pages_loop(parts, i + 1, out \cup {p.val}, num_pages)

\* render.py:20 with "is None" in place of "not pages_arg": the empty
\* specification is split like any other
parse_pages_none_only(pages_arg, num_pages) ==
  IF pages_arg = None
  THEN Returned(RangeList(1, num_pages))
  ELSE parse_pages_loop(Split(pages_arg, ","), 1, {}, num_pages)

\* render.py:19-36
parse_pages(pages_arg, num_pages) ==
  IF pages_arg = None \/ pages_arg = <<>>
  THEN Returned(RangeList(1, num_pages))
  ELSE parse_pages_loop(Split(pages_arg, ","), 1, {}, num_pages)

\* utils.py:73 without the test a > b
parse_page_ranges_bad_range_no_order(a, b, num_pages) ==
  a < 1 \/ b < 1 \/ a > num_pages \/ b > num_pages

\* utils.py:73
parse_page_ranges_bad_range(a, b, num_pages) ==
  a < 1 \/ b < 1 \/ a > num_pages \/ b > num_pages \/ a > b

\* utils.py:75: range(a, b + 1)
parse_page_ranges_range(a, b) == a .. b

\* utils.py:78 with p < 0 in place of p < 1
parse_page_ranges_bad_number_zero_ok(p, num_pages) ==
  p < 0 \/ p > num_pages

\* utils.py:78
parse_page_ranges_bad_number(p, num_pages) ==
  p < 1 \/ p > num_pages

\* utils.py:67-80
RECURSIVE parse_page_ranges_loop(_, _, _, _)
parse_page_ranges_loop(parts, i, out, num_pages) ==
  IF i > Len(parts) THEN Returned(Sorted(out))
  ELSE
    LET part == Strip(parts[i]) IN
    IF Contains(part, "-")
    THEN LET ab == SplitFirst(part, "-")
             a == PyInt(ab[1])
             b == PyInt(ab[2])
         IN IF ~a.ok THEN Raised(IntLiteralError(ab[1]))
            ELSE IF ~b.ok THEN Raised(IntLiteralError(ab[2]))
            ELSE IF parse_page_ranges_bad_range(a.val, b.val, num_pages)
            THEN Raised(Exc("ValueError", "Invalid page range", part))
            ELSE parse_page_ranges_loop(parts, i + 1,
                                        out \cup parse_page_ranges_range(a.val, b.val),
                                        num_pages)
    ELSE LET p == PyInt(part)
         IN IF ~p.ok THEN Raised(IntLiteralError(part))
            ELSE IF parse_page_ranges_bad_number(p.val, num_pages)
            THEN Raised(Exc("ValueError", "Invalid page number", IntToStr(p.val)))
            ELSE parse_page_ranges_loop(parts, i + 1, out \cup {p.val}, num_pages)

\* utils.py:65 with "is None" in place of "not pages_arg"
parse_page_ranges_none_only(pages_arg, num_pages) ==
  IF pages_arg = None
  THEN Returned(RangeList(1, num_pages))
  ELSE parse_page_ranges_loop(Split(pages_arg, ","), 1, {}, num_pages)

\* utils.py:48-82
parse_page_ranges(pages_arg, num_pages) ==
  IF pages_arg = None \/ pages_arg = <<>>
  THEN Returned(RangeList(1, num_pages))
  ELSE parse_page_ranges_loop(Split(pages_arg, ","), 1, {}, num_pages)

\* the two copies of the export, named by their function
Fns == {"render", "render_pdf_to_images"}

\* the resolver each copy of the export calls (render.py:44, utils.py:113)
Resolve(fn, pages_arg, num_pages) ==
  IF fn = "render" THEN parse_pages(pages_arg, num_pages)
  ELSE parse_page_ranges(pages_arg, num_pages)

\* ------------------------------------------------------------------ paths
\* os.path.splitext: the extension starts at the last dot of the last
\* component, unless that component has only dots before it
splitext(p) ==
  LET sepIndex == RFind(p, "/")
      dotIndex == RFind(p, ".")
  IN IF /\ dotIndex > sepIndex
        /\ \E j \in (sepIndex + 1)..(dotIndex - 1) : p[j] # "."
     THEN <<SubSeq(p, 1, dotIndex - 1), SubSeq(p, dotIndex, Len(p))>>
     ELSE <<p, <<>>>>

\* os.path.basename
basename(p) == SubSeq(p, RFind(p, "/") + 1, Len(p))

\* os.path.dirname
dirname(p) ==
  LET i == RFind(p, "/") IN
  IF i = 0 THEN <<>> ELSE SubSeq(p, 1, i - 1)

\* os.path.join of two components
join(a, b) ==
  IF b # <<>> /\ Head(b) = "/" THEN b
  ELSE IF a = <<>> \/ a[Len(a)] = "/" THEN a \o b
  ELSE a \o <<"/">> \o b

\* ------------------------------------------------------------------ files
\* bytes of a file: a paginated document of k pages, the raster of a page with
\* n channels, anything else
DocData(k) == [fmt |-> "pdf", pages |-> k, page |-> 0, n |-> 0]

PngData(page, n) == [fmt |-> "png", pages |-> 0, page |-> page, n |-> n]

JunkData == [fmt |-> "junk", pages |-> 0, page |-> 0, n |-> 0]

\* a file just created or truncated by open(path, "wb")
EmptyData == [fmt |-> "empty", pages |-> 0, page |-> 0, n |-> 0]

File(data) == [kind |-> "file", data |-> data]

Dir == [kind |-> "dir", data |-> EmptyData]

\* os.path.exists, os.path.isfile, os.path.isdir on filesystem f
exists(f, p) == p \in DOMAIN f

\* os.path.exists used where os.path.isfile is meant
isfile_any_entry(f, p) == p \in DOMAIN f

isfile(f, p) == p \in DOMAIN f /\ f[p].kind = "file"

isdir(f, p) == p = <<>> \/ (p \in DOMAIN f /\ f[p].kind = "dir")

\* the filesystem with path p bound to entry e
Put(f, p, e) == [q \in DOMAIN f \cup {p} |-> IF q = p THEN e ELSE f[q]]

OsError(type, p) == Exc(type, "OSError", p)

\* outcome of a filesystem call: the filesystem after it and what it raised
FsOk(f) == [ok |-> TRUE, fs |-> f, exc |-> NoExc]

FsErr(f, e) == [ok |-> FALSE, fs |-> f, exc |-> e]

\* os.mkdir(p)
mkdir(f, p) ==
  IF exists(f, p) THEN FsErr(f, OsError("FileExistsError", p))
  ELSE IF exists(f, dirname(p)) /\ ~isdir(f, dirname(p))
  THEN FsErr(f, OsError("NotADirectoryError", p))
  ELSE IF ~isdir(f, dirname(p))
  THEN FsErr(f, OsError("FileNotFoundError", p))
  ELSE FsOk(Put(f, p, Dir))

\* os.makedirs(p): the missing ancestors first, then mkdir(p)
RECURSIVE makedirs(_, _)
makedirs(f, p) ==
  LET head == dirname(p) IN
  IF head # <<>> /\ ~exists(f, head)
  THEN LET up == makedirs(f, head) IN
       IF up.ok THEN mkdir(up.fs, p) ELSE up
  ELSE mkdir(f, p)

\* open(p, "wb"): creates or truncates the file
open_wb(f, p) ==
  IF isdir(f, p) THEN FsErr(f, OsError("IsADirectoryError", p))
  ELSE IF exists(f, dirname(p)) /\ ~isdir(f, dirname(p))
  THEN FsErr(f, OsError("NotADirectoryError", p))
  ELSE IF ~isdir(f, dirname(p))
  THEN FsErr(f, OsError("FileNotFoundError", p))
  ELSE FsOk(Put(f, p, File(EmptyData)))

\* writing a whole file: open(p, "wb") then write(data)
write_file(f, p, data) ==
  LET o == open_wb(f, p) IN
  IF o.ok THEN FsOk(Put(o.fs, p, File(data))) ELSE o

\* ------------------------------------------------------------------ state
\* invocations of the export that can be in progress
Procs == {1, 2}

VARIABLES
  fs,         \* the filesystem: path -> entry
  pc,         \* where each invocation of the export stands
  args,       \* its arguments (pdf_path, dpi, pages, grayscale) and which copy runs
  doc,        \* its document handle: state and page_count
  page_list,  \* its resolved page list
  saved,      \* the paths it has written so far, in order
  result,     \* what it returned or raised
  fs0,        \* the filesystem as it was when the invocation was called
  runs,       \* invocations called so far
  cli,        \* per command-line process: what it printed, how it exited
  api_key,    \* os.environ.get("OPENAI_API_KEY")
  loaded,     \* per extraction module: whether it has been imported
  client,     \* per extraction module: its cached OpenAI client
  clients_made, \* per extraction module: OpenAI() constructions so far
  api_calls,  \* responses.parse requests sent so far
  out_files,  \* the extracted_fields files on disk, by name
  ops,        \* operations of the extraction side called so far
  argv,       \* the arguments the process passes to run_extraction
  response,   \* the event delivered to a Lambda handler, its response once invoked
  last        \* the last such operation: its arguments and what it came to

\* the state of the extraction side
exvars ==
  <<api_key, loaded, client, clients_made, api_calls, out_files, ops, argv,
    response, last>>

\* the state of the export side
rvars == <<fs, pc, args, doc, page_list, saved, result, fs0, runs, cli>>

vars == <<rvars, exvars>>

NoArgs ==
  [pdf_path |-> <<>>, dpi |-> 0, pages |-> None, grayscale |-> FALSE,
   fn |-> "render"]

NoDoc == [state |-> "none", page_count |-> 0]

NoResult == [ok |-> FALSE, val |-> <<>>, exc |-> NoExc]

\* a command-line process that has printed nothing and has not exited
NoCli == [stdout |-> <<>>, stderr |-> <<>>, exited |-> FALSE, status |-> 0]

\* ------------------------------------------------------------------ export
\* render.py:46-47, utils.py:116-117
folder_name(pdf_path) == splitext(pdf_path)[1]

\* render.py:57, utils.py:127
single_output(pl) == Len(pl) = 1

\* the name of a page rendered alone used for every page
out_path_always_single(pdf_path, page_num, single) ==
  LET base == splitext(pdf_path)[1] IN
  join(folder_name(pdf_path), basename(base) \o <<".", "p", "n", "g">>)

\* render.py:68-71, utils.py:139-143
out_path(pdf_path, page_num, single) ==
  LET base == splitext(pdf_path)[1] IN
  IF single
  THEN join(folder_name(pdf_path), basename(base) \o <<".", "p", "n", "g">>)
  ELSE join(folder_name(pdf_path),
            basename(base) \o <<"_", "p">> \o Format02d(page_num)
                           \o <<".", "p", "n", "g">>)

\* render.py:77, utils.py:149
pdf_copy_path(pdf_path) ==
  LET base == splitext(pdf_path)[1] IN
  join(folder_name(pdf_path), basename(base) \o <<".", "p", "d", "f">>)

\* channels of the raster page.get_pixmap(matrix, alpha=False) gives (RGB)
RgbChannels == 3

\* channels of fitz.Pixmap(fitz.csGRAY, pix)
GrayChannels == 1

\* the channel counts a raster can have: gray, RGB, CMYK
ChannelCounts == {GrayChannels, RgbChannels, RgbChannels + 1}

\* the conversion left out: the raster is saved as it was rendered
pix_n_as_rendered(grayscale, n) == n

\* render.py:64-66, utils.py:134-136: channels of the raster that is saved
\* when the rendered one has n
pix_n(grayscale, n) ==
  IF grayscale /\ n > 1 THEN GrayChannels ELSE n

\* render.py:40, utils.py:109
NotFoundMessage(fn) ==
  IF fn = "render" THEN "File not found" ELSE "PDF file not found"

\* the caller invokes render / render_pdf_to_images
Call(p, limit, paths, pageArgs, dpis) ==
  /\ pc[p] = "idle"
  /\ runs < limit
  /\ \E path \in paths, pa \in pageArgs, d \in dpis, g \in BOOLEAN, fn \in Fns :
       args' = [args EXCEPT ![p] = [pdf_path |-> path, dpi |-> d, pages |-> pa,
                                    grayscale |-> g, fn |-> fn]]
  /\ pc' = [pc EXCEPT ![p] = "isfile"]
  /\ doc' = [doc EXCEPT ![p] = NoDoc]
  /\ page_list' = [page_list EXCEPT ![p] = <<>>]
  /\ saved' = [saved EXCEPT ![p] = <<>>]
  /\ result' = [result EXCEPT ![p] = NoResult]
  /\ fs0' = [fs0 EXCEPT ![p] = fs]
  /\ runs' = runs + 1
  /\ UNCHANGED <<fs, cli, exvars>>

\* the invocation ends by raising e
Raise(p, e) ==
  /\ result' = [result EXCEPT ![p] = Raised(e)]
  /\ pc' = [pc EXCEPT ![p] = "raised"]

\* control is back with the caller: the frame of the invocation is gone
Return(p) ==
  /\ pc[p] \in {"returned", "raised"}
  /\ pc' = [pc EXCEPT ![p] = "idle"]
  /\ args' = [args EXCEPT ![p] = NoArgs]
  /\ doc' = [doc EXCEPT ![p] = NoDoc]
  /\ page_list' = [page_list EXCEPT ![p] = <<>>]
  /\ saved' = [saved EXCEPT ![p] = <<>>]
  /\ result' = [result EXCEPT ![p] = NoResult]
  /\ fs0' = [fs0 EXCEPT ![p] = fs]
  /\ UNCHANGED <<fs, runs, cli, exvars>>

\* render.py:39-40, utils.py:108-109
CheckIsFile(p) ==
  /\ pc[p] = "isfile"
  /\ IF isfile(fs, args[p].pdf_path)
     THEN /\ pc' = [pc EXCEPT ![p] = "open"]
          /\ UNCHANGED result
     ELSE Raise(p, Exc("FileNotFoundError", NotFoundMessage(args[p].fn),
                       args[p].pdf_path))
  /\ UNCHANGED <<fs, args, doc, page_list, saved, fs0, runs, cli, exvars>>

\* the output directory made as soon as the document is open, before the
\* pages are resolved
OpenDoc_makedirs_first(p) ==
  /\ pc[p] = "open"
  /\ IF isfile(fs, args[p].pdf_path) /\ fs[args[p].pdf_path].data.fmt = "pdf"
     THEN /\ doc' = [doc EXCEPT ![p] =
                       [state |-> "open",
                        page_count |-> fs[args[p].pdf_path].data.pages]]
          /\ pc' = [pc EXCEPT ![p] = "pages"]
          /\ fs' = makedirs(fs, folder_name(args[p].pdf_path)).fs
          /\ UNCHANGED result
     ELSE /\ Raise(p, Exc("FileDataError", "Failed to open file",
                          args[p].pdf_path))
          /\ UNCHANGED <<doc, fs>>
  /\ UNCHANGED <<args, page_list, saved, fs0, runs, cli, exvars>>

\* render.py:42-43, utils.py:111-112: fitz.open and doc.page_count
OpenDoc(p) ==
  /\ pc[p] = "open"
  /\ IF isfile(fs, args[p].pdf_path) /\ fs[args[p].pdf_path].data.fmt = "pdf"
     THEN /\ doc' = [doc EXCEPT ![p] =
                       [state |-> "open",
                        page_count |-> fs[args[p].pdf_path].data.pages]]
          /\ pc' = [pc EXCEPT ![p] = "pages"]
          /\ UNCHANGED result
     ELSE /\ Raise(p, Exc("FileDataError", "Failed to open file",
                          args[p].pdf_path))
          /\ UNCHANGED doc
  /\ UNCHANGED <<fs, args, page_list, saved, fs0, runs, cli, exvars>>

\* the resolver keeping a count of its calls and letting it into the result
ResolvePages_counting(p) ==
  /\ pc[p] = "pages"
  /\ LET calls == Cardinality({q \in Procs : pc[q] \in {"exists", "raised"}})
         r == Resolve(args[p].fn, args[p].pages, doc[p].page_count + calls)
     IN IF r.ok
        THEN /\ page_list' = [page_list EXCEPT ![p] = r.val]
             /\ pc' = [pc EXCEPT ![p] = "exists"]
             /\ UNCHANGED result
        ELSE /\ Raise(p, r.exc)
             /\ UNCHANGED page_list
  /\ UNCHANGED <<fs, args, doc, saved, fs0, runs, cli, exvars>>

\* render.py:44, utils.py:113
ResolvePages(p) ==
  /\ pc[p] = "pages"
  /\ LET r == Resolve(args[p].fn, args[p].pages, doc[p].page_count) IN
     IF r.ok
     THEN /\ page_list' = [page_list EXCEPT ![p] = r.val]
          /\ pc' = [pc EXCEPT ![p] = "exists"]
          /\ UNCHANGED result
     ELSE /\ Raise(p, r.exc)
          /\ UNCHANGED page_list
  /\ UNCHANGED <<fs, args, doc, saved, fs0, runs, cli, exvars>>

\* render.py:50, utils.py:119: os.path.exists(folder_name)
CheckFolder(p) ==
  /\ pc[p] = "exists"
  /\ pc' = [pc EXCEPT ![p] =
              IF exists(fs, folder_name(args[p].pdf_path)) THEN "page"
              ELSE "makedirs"]
  /\ UNCHANGED <<fs, args, doc, page_list, saved, result, fs0, runs, cli, exvars>>

\* render.py:51, utils.py:120: os.makedirs(folder_name)
MakeDirs(p) ==
  /\ pc[p] = "makedirs"
  /\ LET m == makedirs(fs, folder_name(args[p].pdf_path)) IN
     IF m.ok
     THEN /\ fs' = m.fs
          /\ pc' = [pc EXCEPT ![p] = "page"]
          /\ UNCHANGED result
     ELSE /\ Raise(p, m.exc)
          /\ UNCHANGED fs
  /\ UNCHANGED <<args, doc, page_list, saved, fs0, runs, cli, exvars>>

\* os.makedirs refused by the system (permissions, read-only volume)
MakeDirsFail(p) ==
  /\ pc[p] = "makedirs"
  /\ Raise(p, OsError("PermissionError", folder_name(args[p].pdf_path)))
  /\ UNCHANGED <<fs, args, doc, page_list, saved, fs0, runs, cli, exvars>>

\* render.py:60-74, utils.py:130-146: one iteration of the page loop
RenderPage(p) ==
  /\ pc[p] = "page"
  /\ Len(saved[p]) < Len(page_list[p])
  /\ LET page_num == page_list[p][Len(saved[p]) + 1]
         path == out_path(args[p].pdf_path, page_num, single_output(page_list[p]))
         w == write_file(fs, path, PngData(page_num, pix_n(args[p].grayscale, RgbChannels)))
     IN IF w.ok
        THEN /\ fs' = w.fs
             /\ saved' = [saved EXCEPT ![p] = Append(@, path)]
             /\ UNCHANGED <<pc, result>>
        ELSE /\ Raise(p, w.exc)
             /\ UNCHANGED <<fs, saved>>
  /\ UNCHANGED <<args, doc, page_list, fs0, runs, cli, exvars>>

\* the failure handled with a rollback: the files written for the earlier
\* pages are removed
RenderPageFail_rollback(p) ==
  /\ pc[p] = "page"
  /\ Len(saved[p]) < Len(page_list[p])
  /\ fs' = [q \in DOMAIN fs \ {saved[p][i] : i \in 1..Len(saved[p])} |-> fs[q]]
  /\ Raise(p, Exc("RuntimeError", "cannot render or save page",
                  IntToStr(page_list[p][Len(saved[p]) + 1])))
  /\ UNCHANGED <<args, doc, page_list, saved, fs0, runs, cli, exvars>>

\* rendering or saving the next page fails (no space left, rasteriser error)
RenderPageFail(p) ==
  /\ pc[p] = "page"
  /\ Len(saved[p]) < Len(page_list[p])
  /\ Raise(p, Exc("RuntimeError", "cannot render or save page",
                  IntToStr(page_list[p][Len(saved[p]) + 1])))
  /\ UNCHANGED <<fs, args, doc, page_list, saved, fs0, runs, cli, exvars>>

\* render.py:77-78, utils.py:149-150: os.path.exists(pdf_copy_path)
CheckCopy(p) ==
  /\ pc[p] = "page"
  /\ Len(saved[p]) = Len(page_list[p])
  /\ pc' = [pc EXCEPT ![p] =
              IF exists(fs, pdf_copy_path(args[p].pdf_path)) THEN "close"
              ELSE "copy"]
  /\ UNCHANGED <<fs, args, doc, page_list, saved, result, fs0, runs, cli, exvars>>

\* render.py:79-81, utils.py:151-152: read the source, write the copy
CopyPdf(p) ==
  /\ pc[p] = "copy"
  /\ IF ~isfile(fs, args[p].pdf_path)
     THEN /\ Raise(p, OsError("FileNotFoundError", args[p].pdf_path))
          /\ UNCHANGED fs
     ELSE LET w == write_file(fs, pdf_copy_path(args[p].pdf_path),
                              fs[args[p].pdf_path].data)
          IN IF w.ok
             THEN /\ fs' = w.fs
                  /\ pc' = [pc EXCEPT ![p] = "close"]
                  /\ UNCHANGED result
             ELSE /\ Raise(p, w.exc)
                  /\ UNCHANGED fs
  /\ UNCHANGED <<args, doc, page_list, saved, fs0, runs, cli, exvars>>

\* the copy fails: open refused, or the write fails after open(.., "wb")
\* created the file
CopyPdfFail(p) ==
  /\ pc[p] = "copy"
  /\ \E opened \in BOOLEAN :
       LET o == open_wb(fs, pdf_copy_path(args[p].pdf_path)) IN
       /\ fs' = IF opened /\ o.ok THEN o.fs ELSE fs
       /\ Raise(p, OsError("OSError", pdf_copy_path(args[p].pdf_path)))
  /\ UNCHANGED <<args, doc, page_list, saved, fs0, runs, cli, exvars>>

\* the manifest with the path of the archived copy appended
CloseDoc_with_copy(p) ==
  /\ pc[p] = "close"
  /\ doc' = [doc EXCEPT ![p].state = "closed"]
  /\ result' = [result EXCEPT ![p] =
                  Returned(Append(saved[p], pdf_copy_path(args[p].pdf_path)))]
  /\ pc' = [pc EXCEPT ![p] = "returned"]
  /\ UNCHANGED <<fs, args, page_list, saved, fs0, runs, cli, exvars>>

\* render.py:83-84, utils.py:154-155: doc.close() and return saved
CloseDoc(p) ==
  /\ pc[p] = "close"
  /\ doc' = [doc EXCEPT ![p].state = "closed"]
  /\ result' = [result EXCEPT ![p] = Returned(saved[p])]
  /\ pc' = [pc EXCEPT ![p] = "returned"]
  /\ UNCHANGED <<fs, args, page_list, saved, fs0, runs, cli, exvars>>

\* ------------------------------------------------------------------ command line
\* the label main prints before the paths
SavedLabel == <<"S", "a", "v", "e", "d", ":">>

\* render.py:98-103: the lines print writes for the returned list; print puts
\* one space between its arguments
SavedLines(outputs) ==
  IF Len(outputs) = 1
  THEN <<SavedLabel \o <<" ">> \o outputs[1]>>
  ELSE <<SavedLabel>>
         \o [i \in 1..Len(outputs) |-> <<" ", " ">> \o <<" ">> \o outputs[i]]

\* render.py:105: the line written to standard error for exception e
ErrorLine(e) == [prefix |-> "Error: ", exc |-> e]

\* render.py:87-97: main parses the command line and calls render once
Main(p, paths, pageArgs, dpis) ==
  /\ Call(p, 1, paths, pageArgs, dpis)
  /\ args'[p].fn = "render"

\* render.py:98-103: render returned; the paths are printed and main returns,
\* the process ending with status 0
MainPrint(p) ==
  /\ pc[p] = "returned"
  /\ cli' = [cli EXCEPT ![p] = [stdout |-> @.stdout \o SavedLines(result[p].val),
                                stderr |-> @.stderr,
                                exited |-> TRUE,
                                status |-> 0]]
  /\ pc' = [pc EXCEPT ![p] = "exited"]
  /\ UNCHANGED <<fs, args, doc, page_list, saved, result, fs0, runs, exvars>>

\* the handler with "pass" for a body: the error is swallowed
MainExcept_swallow(p) ==
  /\ pc[p] = "raised"
  /\ cli' = [cli EXCEPT ![p] = [stdout |-> @.stdout,
                                stderr |-> @.stderr,
                                exited |-> TRUE,
                                status |-> 0]]
  /\ pc' = [pc EXCEPT ![p] = "exited"]
  /\ UNCHANGED <<fs, args, doc, page_list, saved, result, fs0, runs, exvars>>

\* render.py:104-106: except Exception prints the error to standard error
\* and calls sys.exit(1)
MainExcept(p) ==
  /\ pc[p] = "raised"
  /\ cli' = [cli EXCEPT ![p] = [stdout |-> @.stdout,
                                stderr |-> Append(@.stderr, ErrorLine(result[p].exc)),
                                exited |-> TRUE,
                                status |-> 1]]
  /\ pc' = [pc EXCEPT ![p] = "exited"]
  /\ UNCHANGED <<fs, args, doc, page_list, saved, result, fs0, runs, exvars>>

\* ------------------------------------------------------------------ extraction
\* the modules that carry run_extraction: scripts/run_extraction.py and
\* src/utils.py
Mods == {"run_extraction", "utils"}

\* run_extraction.py:78, utils.py:349
HARDCODE_PROMPT_ID ==
  <<"p", "m", "p", "t", "_", "6", "8", "d", "3", "3", "2", "1", "8", "9",
    "7", "f", "4", "8", "1", "9", "7", "9", "1", "8", "0", "c", "a", "9",
    "1", "5", "2", "2", "8", "4", "c", "d", "0", "0", "a", "7", "3", "1",
    "7", "f", "b", "e", "8", "1", "9", "7", "2", "f", "1">>

\* run_extraction.py:80, utils.py:351
HARDCODE_IMAGE_1 ==
  <<"f", "i", "l", "e", "-", "R", "Y", "M", "e", "o", "j", "c", "D", "F",
    "B", "t", "o", "D", "Y", "N", "w", "n", "e", "2", "X", "H", "e">>

\* run_extraction.py:81, utils.py:352
HARDCODE_IMAGE_2 ==
  <<"f", "i", "l", "e", "-", "9", "1", "i", "J", "c", "H", "y", "8", "2",
    "5", "k", "r", "x", "o", "J", "e", "R", "1", "p", "R", "R", "6">>

\* run_extraction.py:82, utils.py:353
HARDCODE_FILE ==
  <<"f", "i", "l", "e", "-", "2", "r", "s", "6", "F", "K", "s", "i", "g",
    "L", "6", "J", "9", "L", "Q", "y", "f", "8", "h", "D", "B", "4">>

\* an entry of the content list of a request
InputFile(id) == [type |-> "input_file", file_id |-> id]

InputImage(id) == [type |-> "input_image", file_id |-> id]

\* run_extraction.py:79-83, utils.py:350-354
HARDCODE_CONTENT ==
  <<InputImage(HARDCODE_IMAGE_1), InputImage(HARDCODE_IMAGE_2),
    InputFile(HARDCODE_FILE)>>

\* truth value of an optional string: None and "" are false
Truthy(s) == s # None /\ s # <<>>

\* "a or b" on optional strings
Or(a, b) == IF Truthy(a) THEN a ELSE b

\* the cached client when none has been made: client = None
NoClient == 0

\* run_extraction.py:72, utils.py:221
KeyError(m) ==
  Exc("RuntimeError",
      IF m = "run_extraction"
      THEN "OPENAI_API_KEY not set in environment. Activate your venv or set the env var before calling the API."
      ELSE "OPENAI_API_KEY not set in environment. Set the environment variable before calling extraction functions.",
      <<>>)

\* what a call of get_client gives: the client returned or the exception
\* raised, the cache after the call, the clients made so far
ClientOk(c, made) == [ok |-> TRUE, client |-> c, made |-> made, exc |-> NoExc]

ClientErr(c, made, e) == [ok |-> FALSE, client |-> c, made |-> made, exc |-> e]

\* get_client making a client at every call
get_client_uncached(m, key, cached, made) ==
  IF ~Truthy(key) THEN ClientErr(cached, made, KeyError(m))
  ELSE ClientOk(made + 1, made + 1)

\* run_extraction.py:64-75 get_client, utils.py:203-224 get_openai_client,
\* on module m with environment key `key`, cache `cached` and `made` clients
\* made so far. utils.py cannot be imported when its dependencies are
\* missing (BaseModel is used at module level), so EXTRACTION_DEPS_AVAILABLE
\* is true wherever get_openai_client can be called.
get_client(m, key, cached, made) ==
  IF cached = NoClient
  THEN IF ~Truthy(key) THEN ClientErr(cached, made, KeyError(m))
       ELSE ClientOk(made + 1, made + 1)
  ELSE ClientOk(cached, made)

\* a request to responses.parse: the prompt id and the content of the one
\* user message; NoRequest when none was sent
Request(prompt, content) == [prompt |-> prompt, content |-> content]

NoRequest == Request(None, <<>>)

\* run_extraction.py:189 (img and img != ""), utils.py:382 (img and
\* img.strip()): whether image id img goes into the content
image_kept(m, img) ==
  IF m = "run_extraction" THEN Truthy(img)
  ELSE Truthy(img) /\ Strip(img) # <<>>

\* run_extraction.py:186-190, utils.py:379-383: the content built from the
\* ids the caller gave
RECURSIVE image_entries(_, _)
image_entries(m, imgs) ==
  IF imgs = <<>> THEN <<>>
  ELSE (IF image_kept(m, Head(imgs)) THEN <<InputImage(Head(imgs))>> ELSE <<>>)
         \o image_entries(m, Tail(imgs))

\* the image_ids argument: a list of ids, or None when not given
Ids(ids) == [given |-> TRUE, ids |-> ids]

NoIds == [given |-> FALSE, ids |-> <<>>]

\* image_ids[:2]
FirstTwo(ids) == SubSeq(ids, 1, IF Len(ids) < 2 THEN Len(ids) ELSE 2)

build_content(m, used_file_id, image_ids) ==
  <<InputFile(used_file_id)>>
    \o (IF image_ids.given /\ image_ids.ids # <<>>
        THEN image_entries(m, FirstTwo(image_ids.ids))
        ELSE <<>>)

\* the dict run_extraction returns: the keys it has and their values (a key
\* that is absent has the value of NoRet)
NoRet ==
  [keys |-> {}, status |-> "", prompt_id |-> None, file_id |-> None,
   image_ids |-> NoIds, extraction_result |-> "None", json_output |-> None,
   error |-> <<>>]

\* run_extraction.py:168, utils.py:361-366
DryRunRet(used_prompt, used_file_id, image_ids) ==
  [NoRet EXCEPT !.keys = {"status", "prompt_id", "file_id", "image_ids"},
                !.status = "dry-run",
                !.prompt_id = used_prompt,
                !.file_id = used_file_id,
                !.image_ids = image_ids]

\* result.model_dump_json(indent=2, by_alias=True, exclude_none=False)
model_dump_json(parsed) == <<"{", parsed, "}">>

\* run_extraction.py:216, utils.py:399-403
SuccessRet(parsed) ==
  [NoRet EXCEPT !.keys = {"messages", "extraction_result", "json_output"},
                !.extraction_result = parsed,
                !.json_output = model_dump_json(parsed)]

\* run_extraction.py:219-221, utils.py:407-414: f"Extraction failed: {str(e)}
\* \n{traceback.format_exc()}"
ErrorRet(e) ==
  [NoRet EXCEPT !.keys = {"messages", "extraction_result", "json_output",
                          "error"},
                !.error = <<"Extraction failed: ", e.type, e.msg>>]

\* the names of the files run_extraction writes next to the module
TimestampedName(ts) == <<"extracted_fields-", ts, ".json">>

LatestName == <<"extracted_fields.json">>

\* run_extraction.py:201-215, utils.py:284-320 save_extraction_results: the
\* files written, in order, when the writes go as wr says: the timestamped
\* file first, then the latest; a failed write ends the attempt
saved_names(wr, ts) ==
  IF wr = "both" THEN <<TimestampedName(ts), LatestName>>
  ELSE IF wr = "timestamped_only" THEN <<TimestampedName(ts)>>
  ELSE <<>>

\* what a call of run_extraction comes to: the dict returned, the cache and
\* the clients made after it, the request sent, the files written, and what
\* happened on the way (event): a dry run, no client to be had, the request
\* failing, the response carrying nothing parsed, or a parsed result
Outcome(ret, g, request, wrote, event) ==
  [ret |-> ret, client |-> g.client, made |-> g.made, request |-> request,
   wrote |-> wrote, event |-> event]

\* run_extraction with the writes of the extracted_fields files outside any
\* guard of their own: a failed write is reported as a failed extraction
try_extraction_unguarded_save(m, a, env) ==
  LET used_prompt == Or(a.prompt_id, HARDCODE_PROMPT_ID)
      used_file_id == Or(a.file_id, HARDCODE_CONTENT[Len(HARDCODE_CONTENT)].file_id)
      request ==
        IF ~Truthy(a.prompt_id) \/ ~Truthy(a.file_id)
        THEN Request(HARDCODE_PROMPT_ID, HARDCODE_CONTENT)
        ELSE Request(used_prompt, build_content(m, used_file_id, a.image_ids))
      g == get_client(m, env.key, env.cached, env.made)
  IN IF ~g.ok THEN Outcome(ErrorRet(g.exc), g, NoRequest, <<>>, "no_client")
     ELSE IF env.api.kind = "error"
     THEN Outcome(ErrorRet(Exc("APIError", "request failed", <<>>)),
                  g, request, <<>>, "api_error")
     ELSE IF env.api.kind = "refused"
     THEN Outcome(ErrorRet(Exc("AttributeError", "no parsed output", <<>>)),
                  g, request, <<>>, "no_parse")
     ELSE IF env.wr # "both"
     THEN Outcome(ErrorRet(Exc("OSError", "write failed", <<>>)),
                  g, request, saved_names(env.wr, env.ts), "parsed")
     ELSE Outcome(SuccessRet(env.api.result), g, request,
                  saved_names(env.wr, env.ts), "parsed")

\* run_extraction.py:176-221, utils.py:368-414: the call that is not a dry
\* run, on module m with arguments a in environment env: the key, the cache,
\* what the API answers (api), how the writes go (wr) and the time (ts)
try_extraction(m, a, env) ==
  LET used_prompt == Or(a.prompt_id, HARDCODE_PROMPT_ID)
      used_file_id == Or(a.file_id, HARDCODE_CONTENT[Len(HARDCODE_CONTENT)].file_id)
      request ==
        IF ~Truthy(a.prompt_id) \/ ~Truthy(a.file_id)
        THEN Request(HARDCODE_PROMPT_ID, HARDCODE_CONTENT)
        ELSE Request(used_prompt, build_content(m, used_file_id, a.image_ids))
      g == get_client(m, env.key, env.cached, env.made)
  IN IF ~g.ok THEN Outcome(ErrorRet(g.exc), g, NoRequest, <<>>, "no_client")
     ELSE IF env.api.kind = "error"
     THEN Outcome(ErrorRet(Exc("APIError", "request failed", <<>>)),
                  g, request, <<>>, "api_error")
     ELSE IF env.api.kind = "refused"
     THEN Outcome(ErrorRet(Exc("AttributeError",
                               "'NoneType' object has no attribute 'model_dump_json'",
                               <<>>)),
                  g, request, <<>>, "no_parse")
     ELSE Outcome(SuccessRet(env.api.result), g, request,
                  saved_names(env.wr, env.ts), "parsed")

\* run_extraction going on to the API when asked for a dry run
run_extraction_no_dry_run(m, a, env) == try_extraction(m, a, env)

\* run_extraction.py:155-221, utils.py:323-414
run_extraction(m, a, env) ==
  LET used_prompt == Or(a.prompt_id, HARDCODE_PROMPT_ID)
      used_file_id == Or(a.file_id, HARDCODE_CONTENT[Len(HARDCODE_CONTENT)].file_id)
  IN IF a.dry_run
     THEN Outcome(DryRunRet(used_prompt, used_file_id, a.image_ids),
                  ClientOk(env.cached, env.made), NoRequest, <<>>, "dry")
     ELSE try_extraction(m, a, env)

\* operations of the extraction side in one behaviour
MaxCalls == 2

\* values of OPENAI_API_KEY: unset, empty, set
Keys == {None, <<>>, <<"s", "k">>}

\* what responses.parse comes to: a parsed result, no parsed result
\* (output_parsed is None), an exception
ApiOutcomes ==
  {[kind |-> "parsed", result |-> "r"],
   [kind |-> "refused", result |-> "None"],
   [kind |-> "error", result |-> "None"]}

\* how the writes of the extracted_fields files go
WriteOutcomes == {"both", "timestamped_only", "none"}

\* datetime.utcnow() formatted, at the calls
Times == {"t"}

\* the extracted_fields files on disk: name and text of each
WriteOut(files, name, text) ==
  {f \in files : f.name # name} \cup {[name |-> name, text |-> text]}

RECURSIVE WriteAll(_, _, _)
WriteAll(files, names, text) ==
  IF names = <<>> THEN files
  ELSE WriteAll(WriteOut(files, Head(names), text), Tail(names), text)

\* the arguments of run_extraction
ExtractionArgs(prompt_id, file_id, image_ids, dry_run) ==
  [prompt_id |-> prompt_id, file_id |-> file_id, image_ids |-> image_ids,
   dry_run |-> dry_run]

NoExtractionArgs == ExtractionArgs(None, None, NoIds, FALSE)

\* the extraction side as an operation of module m found it
Snapshot(m) ==
  [key |-> api_key, client |-> client[m], made |-> clients_made[m],
   api_calls |-> api_calls, out_files |-> out_files]

\* the record of an operation: which (op) of which module (m), with what
\* arguments, what get_client gave (got), what run_extraction returned (ret),
\* the request sent, the files written, what happened on the way (event),
\* and the state it started from
Op(op, m, a, got, ret, request, wrote, event, before) ==
  [op |-> op, m |-> m, args |-> a, got |-> got, ret |-> ret,
   request |-> request, wrote |-> wrote, event |-> event, before |-> before]

NoOp ==
  Op("none", "", NoExtractionArgs, ClientOk(NoClient, 0), NoRet, NoRequest,
     <<>>, "none", [key |-> None, client |-> NoClient, made |-> 0, api_calls |-> 0,
            out_files |-> {}])

\* ------------------------------------------------------------------ lambda
\* the two copies of lambda_handler: src/utils.py:527-609 and
\* dev_scripts/laravel.py:71-110
Handlers == {"utils", "laravel"}

\* the script files a payload may name, and what loading each comes to
ScriptMissing == <<"missing.py">>
ScriptBroken == <<"broken.py">>
ScriptPlain == <<"plain.py">>
ScriptExtractor == <<"extract.py">>
ScriptFailing == <<"failing.py">>

ScriptPaths ==
  {ScriptMissing, ScriptBroken, ScriptPlain, ScriptExtractor, ScriptFailing}

\* a payload: the keys script, prompt_id, file_id, image_ids, dry_run, each
\* with its value or absent (None; NoIds for image_ids; "absent" for dry_run)
Payload(script, prompt_id, file_id, image_ids, dry_run) ==
  [script |-> script, prompt_id |-> prompt_id, file_id |-> file_id,
   image_ids |-> image_ids, dry_run |-> dry_run]

EmptyPayload == Payload(None, None, None, NoIds, "absent")

\* a JSON value: an object with the keys of a payload, or something else
JsonObject(payload) == [dict |-> TRUE, fields |-> payload]

NotAnObject == [dict |-> FALSE, fields |-> EmptyPayload]

\* a JSON text: of an object, of an array, or not JSON at all
JsonText(form, payload) == [form |-> form, fields |-> payload]

\* json.loads
json_loads(text) ==
  IF text.form = "object" THEN Returned(JsonObject(text.fields))
  ELSE IF text.form = "array" THEN Returned(NotAnObject)
  ELSE Raised(Exc("JSONDecodeError", "Expecting value", <<>>))

\* an event: without body (the event is the payload), with a body that is a
\* string (empty or a JSON text), a dict, or something else
Event(body, text, payload) == [body |-> body, text |-> text, fields |-> payload]

\* utils.py:498-524 parse_lambda_payload, laravel.py:76-85
parse_lambda_payload(event) ==
  IF event.body = "str"
  THEN IF event.text.form = "empty" THEN Returned(JsonObject(EmptyPayload))
       ELSE json_loads(event.text)
  ELSE IF event.body = "none" THEN Returned(JsonObject(event.fields))
  ELSE IF event.body = "dict" THEN Returned(JsonObject(event.fields))
  ELSE Returned(NotAnObject)

\* bool(payload.get("dry_run", False))
PyBool(v) == v \notin {"absent", "False"}

\* utils.py:421-491 load_module_from_path and load_run_extraction_function,
\* laravel.py:40-68 _load_run_extraction_from: the callable, none, or the
\* exception raised
load_run_extraction_function(h, script) ==
  IF script = ScriptMissing
  THEN Raised(Exc("FileNotFoundError",
                  IF h = "utils" THEN "Script not found: missing.py"
                  ELSE "Target script not found: missing.py", <<>>))
  ELSE IF script = ScriptBroken
  THEN Raised(Exc("SyntaxError", "invalid syntax", <<>>))
  ELSE IF script = ScriptPlain THEN Returned(<<>>)
  ELSE Returned(script)

\* what the run_extraction of a loaded script does when called: the one of
\* failing.py raises, the one of extract.py returns `res`
call_script(fn, a, res) ==
  IF fn = ScriptFailing
  THEN Raised(Exc("ValueError", "extraction failed", <<>>))
  ELSE Returned(res)

\* str(res)
PyStr(res) ==
  IF res = "dry_run_dict" THEN "{'status': 'dry-run'}"
  ELSE IF res = "result_dict" THEN "{'messages': []}"
  ELSE "None"

\* the response of a handler and what it did on the way: whether it called
\* run_extraction and with what; raised is the exception that left it, if any
Response(code, status, text, error, details, called, a) ==
  [statusCode |-> code, status |-> status, result |-> text, error |-> error,
   details |-> details, called |-> called, args |-> a, raised |-> NoExc]

NoResponse == Response(0, "", "", "", "", FALSE, NoExtractionArgs)

\* the except clause: utils.py:597-609, laravel.py:106-110
InternalError(h, e, called, a) ==
  IF h = "utils"
  THEN Response(500, "", "", "Internal server error", e.msg, called, a)
  ELSE Response(500, "", "", e.msg, "", called, a)

\* lambda_handler loading the script before its try block: a failure of the
\* load leaves the handler
lambda_handler_load_outside_try(h, event, res) ==
  LET parsed == parse_lambda_payload(event)
      payload == parsed.val.fields
      a == ExtractionArgs(payload.prompt_id, payload.file_id,
                          IF payload.image_ids.given THEN payload.image_ids
                          ELSE Ids(<<>>),
                          PyBool(payload.dry_run))
      loaded_fn == load_run_extraction_function(h, payload.script)
      run == call_script(loaded_fn.val, a, res)
  IN IF ~parsed.ok THEN InternalError(h, parsed.exc, FALSE, NoExtractionArgs)
     ELSE IF ~parsed.val.dict
     THEN InternalError(h, Exc("AttributeError", "object has no attribute 'get'", <<>>),
                        FALSE, NoExtractionArgs)
     ELSE IF ~Truthy(payload.script)
     THEN Response(400, "", "", "script is required", "", FALSE,
                   NoExtractionArgs)
     ELSE IF ~loaded_fn.ok
     THEN [NoResponse EXCEPT !.raised = loaded_fn.exc]
     ELSE IF loaded_fn.val = <<>>
     THEN Response(400, "", "", "no run_extraction", "", FALSE,
                   NoExtractionArgs)
     ELSE IF ~run.ok THEN InternalError(h, run.exc, TRUE, a)
     ELSE Response(200, IF h = "utils" THEN "success" ELSE "ok",
                   PyStr(run.val), "", "", TRUE, a)

\* utils.py:527-609, laravel.py:71-110, for handler copy h on an event, when
\* the run_extraction of extract.py returns `res`
lambda_handler(h, event, res) ==
  LET parsed == parse_lambda_payload(event)
      payload == parsed.val.fields
      a == ExtractionArgs(payload.prompt_id, payload.file_id,
                          IF payload.image_ids.given THEN payload.image_ids
                          ELSE Ids(<<>>),
                          PyBool(payload.dry_run))
      loaded_fn == load_run_extraction_function(h, payload.script)
      run == call_script(loaded_fn.val, a, res)
  IN IF ~parsed.ok THEN InternalError(h, parsed.exc, FALSE, NoExtractionArgs)
     ELSE IF ~parsed.val.dict
     THEN InternalError(h, Exc("AttributeError", "object has no attribute 'get'", <<>>),
                        FALSE, NoExtractionArgs)
     ELSE IF ~Truthy(payload.script)
     THEN Response(400, "", "",
                   IF h = "utils" THEN "script parameter is required"
                   ELSE "script is required",
                   "", FALSE, NoExtractionArgs)
     ELSE IF ~loaded_fn.ok
     THEN InternalError(h, loaded_fn.exc, FALSE, NoExtractionArgs)
     ELSE IF loaded_fn.val = <<>>
     THEN Response(400, "", "",
                   IF h = "utils"
                   THEN "Script does not expose run_extraction function"
                   ELSE "target script does not expose run_extraction; please export run_extraction(...)",
                   "", FALSE, NoExtractionArgs)
     ELSE IF ~run.ok THEN InternalError(h, run.exc, TRUE, a)
     ELSE Response(200, IF h = "utils" THEN "success" ELSE "ok",
                   PyStr(run.val), "", "", TRUE, a)

\* an invocation of a handler: which copy, on what event, and its response
Invocation(h, event, resp) == [handler |-> h, event |-> event, resp |-> resp]

NoText == JsonText("empty", EmptyPayload)

NoInvocation == Invocation("", Event("none", NoText, EmptyPayload), NoResponse)

\* ------------------------------------------------------------------ extraction steps
\* the extraction side before anything of it ran: no module imported, no
\* client (run_extraction.py:62, utils.py:201), nothing sent or written
ExtractionIdle ==
  /\ api_key = None
  /\ loaded = [m \in Mods |-> FALSE]
  /\ client = [m \in Mods |-> NoClient]
  /\ clients_made = [m \in Mods |-> 0]
  /\ api_calls = 0
  /\ out_files = {}
  /\ ops = 0
  /\ argv = NoExtractionArgs
  /\ response = NoInvocation
  /\ last = NoOp

\* import of module m: run_extraction.py:62 client = None, utils.py:201
\* _openai_client = None; nothing else runs at import. A process imports
\* one of the two copies.
ImportModule(m) ==
  /\ \A n \in Mods : ~loaded[n]
  /\ loaded' = [loaded EXCEPT ![m] = TRUE]
  /\ client' = [client EXCEPT ![m] = NoClient]
  /\ last' = Op("import", m, NoExtractionArgs, ClientOk(NoClient, 0), NoRet,
                NoRequest, <<>>, "none", Snapshot(m))
  /\ UNCHANGED <<api_key, clients_made, api_calls, out_files, ops, argv,
                 response, rvars>>

\* the environment sets, empties or unsets OPENAI_API_KEY
SetKey(k) ==
  /\ k # api_key
  /\ api_key' = k
  /\ UNCHANGED <<loaded, client, clients_made, api_calls, out_files, ops,
                 argv, response, last, rvars>>

\* a call of get_client (run_extraction.py:64-75) or get_openai_client
\* (utils.py:203-224) of module m
CallGetClient(m) ==
  /\ loaded[m]
  /\ ops < MaxCalls
  /\ LET g == get_client(m, api_key, client[m], clients_made[m])
     IN /\ client' = [client EXCEPT ![m] = g.client]
        /\ clients_made' = [clients_made EXCEPT ![m] = g.made]
        /\ last' = Op("get_client", m, NoExtractionArgs, g, NoRet, NoRequest,
                      <<>>, "none", Snapshot(m))
  /\ ops' = ops + 1
  /\ UNCHANGED <<api_key, loaded, api_calls, out_files, argv, response, rvars>>

\* a call of run_extraction of module m (run_extraction.py:155-221,
\* utils.py:323-414) with the arguments of the process (run_extraction.py:
\* 225-238 main, utils.py:578-596 lambda_handler): the API answers and the
\* writes go one way or another
RunExtraction(m) ==
  /\ loaded[m]
  /\ ops < MaxCalls
  /\ \E api \in ApiOutcomes, wr \in WriteOutcomes, ts \in Times :
       LET r == run_extraction(m, argv, [key |-> api_key, cached |-> client[m],
                                      made |-> clients_made[m], api |-> api,
                                      wr |-> wr, ts |-> ts])
       IN /\ client' = [client EXCEPT ![m] = r.client]
          /\ clients_made' = [clients_made EXCEPT ![m] = r.made]
          /\ api_calls' = api_calls + (IF r.request = NoRequest THEN 0 ELSE 1)
          /\ out_files' = WriteAll(out_files, r.wrote, r.ret.json_output)
          /\ last' = Op("run_extraction", m, argv, ClientOk(r.client, r.made),
                        r.ret, r.request, r.wrote, r.event, Snapshot(m))
  /\ ops' = ops + 1
  /\ UNCHANGED <<api_key, loaded, argv, response, rvars>>

\* ------------------------------------------------------------------ inputs
\* paths the caller passes
PathPdf == <<"a", ".", "p", "d", "f">>
PathUpper == <<"a", ".", "P", "D", "F">>
PathNoExt == <<"a">>
PathSub == <<"d", "/", "a", ".", "p", "d", "f">>
PathMissing == <<"m", ".", "p", "d", "f">>

CallPaths == {PathPdf, PathUpper, PathNoExt, PathSub, PathMissing}

\* filesystems the export starts from
World(path, data) == [q \in {path} |-> File(data)]

Worlds ==
  {World(PathPdf, DocData(k)) : k \in 0..MaxPages}
    \cup {World(PathPdf, JunkData),
          World(PathUpper, DocData(1)),
          World(PathNoExt, DocData(1)),
          Put(World(PathPdf, DocData(1)), PathNoExt, File(JunkData)),
          Put(World(PathSub, DocData(2)), dirname(PathSub), Dir),
          [q \in {PathPdf} |-> Dir]}

\* page specifications the caller passes to the export
CallPages ==
  {None, <<>>, <<"1">>, <<"2">>, <<"1", "-", "2">>, <<"2", ",", "1">>, <<"0">>, <<"2", "-", "1">>, <<"x">>}

\* --dpi values the caller passes
Dpis == {300, 0}

\* characters of the enumerated page specifications
Alphabet == {"0", "1", "2", "-", ",", " ", "x"}

\* every text of at most n characters
Texts(n) == UNION {[1..k -> Alphabet] : k \in 0..n}

\* the specifications the documentation gives as examples, and a few literals
\* int() accepts beyond plain digits
ExampleSpecs ==
  {None, <<>>,
   <<"1", ",", "3", "-", "5", ",", "7">>,
   <<"2", "-", "4", ",", "1">>,
   <<"0">>,
   <<"6">>,
   <<"3", "-", "2">>,
   <<"1", "-", "2", "-", "3">>,
   <<"+", "2">>,
   <<"1", "_", "0">>,
   <<"2", "-", "4", ",", "3", "-", "5">>,
   <<"5", ",", "x">>,
   <<"x", ",", "6">>,
   <<"5", "-", "1", ",", "0">>,
   <<"3", "-", "3">>,
   <<"0", ",", "3", "-", "2">>,
   <<"1", ",", "3", "-", "2">>}

ExampleTotals == {5, 10}

\* page specifications passed to the export of the large document
BigCallPages ==
  {None, <<"1", "0", "0">>, <<"7">>, <<"9", "-", "1", "0">>,
   <<"9", "9", ",", "1", "0", "0">>,
   <<"1", "0", "0", ",", "1">>}

BigWorlds ==
  {World(PathPdf, DocData(BigPages)),
   Put(World(PathSub, DocData(BigPages)), dirname(PathSub), Dir)}

\* ------------------------------------------------------------------ behaviours
Init ==
  /\ fs \in Worlds
  /\ pc = [p \in Procs |-> "idle"]
  /\ args = [p \in Procs |-> NoArgs]
  /\ doc = [p \in Procs |-> NoDoc]
  /\ page_list = [p \in Procs |-> <<>>]
  /\ saved = [p \in Procs |-> <<>>]
  /\ result = [p \in Procs |-> NoResult]
  /\ fs0 = [p \in Procs |-> fs]
  /\ runs = 0
  /\ cli = [p \in Procs |-> NoCli]
  /\ ExtractionIdle

\* one invocation at a time, called again after it ended
Next ==
  \/ Call(1, MaxRuns, CallPaths, CallPages, Dpis)
  \/ CheckIsFile(1)
  \/ OpenDoc(1)
  \/ ResolvePages(1)
  \/ CheckFolder(1)
  \/ MakeDirs(1)
  \/ MakeDirsFail(1)
  \/ RenderPage(1)
  \/ RenderPageFail(1)
  \/ CheckCopy(1)
  \/ CopyPdf(1)
  \/ CopyPdfFail(1)
  \/ CloseDoc(1)
  \/ Return(1)

Spec == Init /\ [][Next]_vars

\* the resolver applied to every short page specification: the export stands
\* at its call of the resolver, the document open with num_pages pages
InitResolver ==
  \E num_pages \in 0..MaxPages \cup ExampleTotals, fn \in Fns :
    \E pa \in IF num_pages \in ExampleTotals THEN ExampleSpecs
              ELSE Texts(MaxLen) \cup {None} :
      /\ fs = World(PathPdf, DocData(num_pages))
      /\ pc = [p \in Procs |-> IF p = 1 THEN "pages" ELSE "idle"]
      /\ args = [p \in Procs |->
                   IF p = 1 THEN [pdf_path |-> PathPdf, dpi |-> 300, pages |-> pa,
                                  grayscale |-> FALSE, fn |-> fn]
                   ELSE NoArgs]
      /\ doc = [p \in Procs |->
                  IF p = 1 THEN [state |-> "open", page_count |-> num_pages]
                  ELSE NoDoc]
      /\ page_list = [p \in Procs |-> <<>>]
      /\ saved = [p \in Procs |-> <<>>]
      /\ result = [p \in Procs |-> NoResult]
      /\ fs0 = [p \in Procs |-> fs]
      /\ runs = 1
      /\ cli = [p \in Procs |-> NoCli]
      /\ ExtractionIdle

NextResolver == ResolvePages(1)

SpecResolver == InitResolver /\ [][NextResolver]_vars

\* one export of a document of BigPages pages
InitBig ==
  /\ fs \in BigWorlds
  /\ pc = [p \in Procs |-> "idle"]
  /\ args = [p \in Procs |-> NoArgs]
  /\ doc = [p \in Procs |-> NoDoc]
  /\ page_list = [p \in Procs |-> <<>>]
  /\ saved = [p \in Procs |-> <<>>]
  /\ result = [p \in Procs |-> NoResult]
  /\ fs0 = [p \in Procs |-> fs]
  /\ runs = 0
  /\ cli = [p \in Procs |-> NoCli]
  /\ ExtractionIdle

NextBig ==
  \/ Call(1, 1, {PathPdf, PathSub}, BigCallPages, {300})
  \/ CheckIsFile(1)
  \/ OpenDoc(1)
  \/ ResolvePages(1)
  \/ CheckFolder(1)
  \/ MakeDirs(1)
  \/ MakeDirsFail(1)
  \/ RenderPage(1)
  \/ RenderPageFail(1)
  \/ CheckCopy(1)
  \/ CopyPdf(1)
  \/ CopyPdfFail(1)
  \/ CloseDoc(1)
  \/ Return(1)

SpecBig == InitBig /\ [][NextBig]_vars

\* one run of the command line: python scripts/render.py <pdf> [options]
NextCli ==
  \/ Main(1, CallPaths, CallPages, Dpis)
  \/ CheckIsFile(1)
  \/ OpenDoc(1)
  \/ ResolvePages(1)
  \/ CheckFolder(1)
  \/ MakeDirs(1)
  \/ MakeDirsFail(1)
  \/ RenderPage(1)
  \/ RenderPageFail(1)
  \/ CheckCopy(1)
  \/ CopyPdf(1)
  \/ CopyPdfFail(1)
  \/ CloseDoc(1)
  \/ MainPrint(1)
  \/ MainExcept(1)

SpecCli == Init /\ [][NextCli]_vars

\* page specifications of the concurrent exports, valid for every document
\* of at least one page
ConcPages == {None, <<"1">>}

\* the source both concurrent exports read
ConcWorlds == {World(PathPdf, DocData(k)) : k \in 1..MaxPages}

InitConc ==
  /\ fs \in ConcWorlds
  /\ pc = [p \in Procs |-> "idle"]
  /\ args = [p \in Procs |-> NoArgs]
  /\ doc = [p \in Procs |-> NoDoc]
  /\ page_list = [p \in Procs |-> <<>>]
  /\ saved = [p \in Procs |-> <<>>]
  /\ result = [p \in Procs |-> NoResult]
  /\ fs0 = [p \in Procs |-> fs]
  /\ runs = 0
  /\ cli = [p \in Procs |-> NoCli]
  /\ ExtractionIdle

\* two exports of the same source, each called once, their steps interleaved;
\* the system refuses nothing and the rasteriser does not fail
NextConc ==
  \E p \in Procs :
    \/ Call(p, Cardinality(Procs), {PathPdf}, ConcPages, {300})
    \/ CheckIsFile(p)
    \/ OpenDoc(p)
    \/ ResolvePages(p)
    \/ CheckFolder(p)
    \/ MakeDirs(p)
    \/ RenderPage(p)
    \/ CheckCopy(p)
    \/ CopyPdf(p)
    \/ CloseDoc(p)

SpecConc == InitConc /\ [][NextConc]_vars

\* the resolver called twice with the same arguments: both invocations stand
\* at their call of the resolver, on the same document, with the same page
\* specification
InitPure ==
  \E num_pages \in 0..MaxPages \cup ExampleTotals, fn \in Fns :
    \E pa \in IF num_pages \in ExampleTotals THEN ExampleSpecs
              ELSE Texts(MaxLen - 1) \cup {None} :
      /\ fs = World(PathPdf, DocData(num_pages))
      /\ pc = [p \in Procs |-> "pages"]
      /\ args = [p \in Procs |->
                   [pdf_path |-> PathPdf, dpi |-> 300, pages |-> pa,
                    grayscale |-> FALSE, fn |-> fn]]
      /\ doc = [p \in Procs |-> [state |-> "open", page_count |-> num_pages]]
      /\ page_list = [p \in Procs |-> <<>>]
      /\ saved = [p \in Procs |-> <<>>]
      /\ result = [p \in Procs |-> NoResult]
      /\ fs0 = [p \in Procs |-> fs]
      /\ runs = Cardinality(Procs)
      /\ cli = [p \in Procs |-> NoCli]
      /\ ExtractionIdle

NextPure == \E p \in Procs : ResolvePages(p)

SpecPure == InitPure /\ [][NextPure]_vars

\* the two copies of the export side by side: invocation 1 runs render on
\* a.pdf, invocation 2 runs render_pdf_to_images on d/a.pdf, a file with the
\* same bytes, both with the same options
EquivWorlds ==
  {Put(Put(World(PathPdf, DocData(k)), dirname(PathSub), Dir),
       PathSub, File(DocData(k))) : k \in 0..MaxPages}

InitEquiv ==
  /\ fs \in EquivWorlds
  /\ pc = [p \in Procs |-> "idle"]
  /\ args = [p \in Procs |-> NoArgs]
  /\ doc = [p \in Procs |-> NoDoc]
  /\ page_list = [p \in Procs |-> <<>>]
  /\ saved = [p \in Procs |-> <<>>]
  /\ result = [p \in Procs |-> NoResult]
  /\ fs0 = [p \in Procs |-> fs]
  /\ runs = 0
  /\ cli = [p \in Procs |-> NoCli]
  /\ ExtractionIdle

\* both copies called with the same dpi, pages and grayscale
CallPair ==
  /\ \A p \in Procs : pc[p] = "idle"
  /\ runs = 0
  /\ \E pa \in CallPages, d \in Dpis, g \in BOOLEAN :
       args' = [p \in Procs |->
                  [pdf_path |-> IF p = 1 THEN PathPdf ELSE PathSub,
                   dpi |-> d, pages |-> pa, grayscale |-> g,
                   fn |-> IF p = 1 THEN "render" ELSE "render_pdf_to_images"]]
  /\ pc' = [p \in Procs |-> "isfile"]
  /\ fs0' = [p \in Procs |-> fs]
  /\ runs' = Cardinality(Procs)
  /\ UNCHANGED <<fs, doc, page_list, saved, result, cli, exvars>>

\* the steps of the two copies interleaved; the system refuses nothing
NextEquiv ==
  \/ CallPair
  \/ \E p \in Procs :
       \/ CheckIsFile(p)
       \/ OpenDoc(p)
       \/ ResolvePages(p)
       \/ CheckFolder(p)
       \/ MakeDirs(p)
       \/ RenderPage(p)
       \/ CheckCopy(p)
       \/ CopyPdf(p)
       \/ CloseDoc(p)

SpecEquiv == InitEquiv /\ [][NextEquiv]_vars

\* ------------------------------------------------------------------ vocabulary of the claims
\* the resolver call of invocation 1 is over, with a list or with an error
ResolverDone == pc[1] \in {"exists", "raised"}

ResolverReturned == pc[1] = "exists"

ResolverRaised == pc[1] = "raised"

\* the trimmed tokens of a page specification
Tokens(pa) ==
  IF pa = None \/ pa = <<>> THEN <<>>
  ELSE [i \in 1..Len(Split(pa, ",")) |-> Strip(Split(pa, ",")[i])]

\* a token written with decimal digits only, and the number it denotes
IsPlainNumber(t) == t # <<>> /\ \A i \in 1..Len(t) : t[i] \in Digits

RECURSIVE Pow10(_)
Pow10(k) == IF k = 0 THEN 1 ELSE 10 * Pow10(k - 1)

PlainValue(t) ==
  LET d(i) == DigitVal(t[i]) * Pow10(Len(t) - i)
      sum[i \in 0..Len(t)] == IF i = 0 THEN 0 ELSE sum[i - 1] + d(i)
  IN sum[Len(t)]

\* a token a-b of two plain numbers around its only hyphen
IsPlainRange(t) ==
  /\ Cardinality({i \in 1..Len(t) : t[i] = "-"}) = 1
  /\ IsPlainNumber(SubSeq(t, 1, Find(t, "-") - 1))
  /\ IsPlainNumber(SubSeq(t, Find(t, "-") + 1, Len(t)))

RangeLow(t) == PlainValue(SubSeq(t, 1, Find(t, "-") - 1))

RangeHigh(t) == PlainValue(SubSeq(t, Find(t, "-") + 1, Len(t)))

\* the pages a valid token denotes in a document of n pages
IsValidToken(t, n) ==
  \/ IsPlainNumber(t) /\ 1 <= PlainValue(t) /\ PlainValue(t) <= n
  \/ IsPlainRange(t) /\ 1 <= RangeLow(t) /\ RangeLow(t) <= RangeHigh(t)
       /\ RangeHigh(t) <= n

TokenPages(t) ==
  IF IsPlainNumber(t) THEN {PlainValue(t)}
  ELSE {q \in 1..RangeHigh(t) : RangeLow(t) <= q}

\* sequence q lists exactly the set S in strictly ascending order
ListsAscending(q, S) ==
  /\ {q[i] : i \in 1..Len(q)} = S
  /\ \A i \in 1..(Len(q) - 1) : q[i] < q[i + 1]

\* the tokens of a specification in reverse order, joined by commas again
RECURSIVE JoinReversed(_)
JoinReversed(ts) ==
  IF Len(ts) = 1 THEN ts[1]
  ELSE JoinReversed(Tail(ts)) \o <<",">> \o ts[1]

\* ------------------------------------------------------------------ C1
\* C1: whenever the resolver returns normally for total_pages >= 1, the list
\* is strictly ascending (hence duplicate-free) and every element lies in
\* 1..total_pages.
C1_AscendingInRange ==
  (ResolverReturned /\ doc[1].page_count >= 1) =>
    /\ \A i \in 1..Len(page_list[1]) :
         1 <= page_list[1][i] /\ page_list[1][i] <= doc[1].page_count
    /\ \A i \in 1..(Len(page_list[1]) - 1) :
         page_list[1][i] < page_list[1][i + 1]
    /\ \A i, j \in 1..Len(page_list[1]) :
         i # j => page_list[1][i] # page_list[1][j]

\* a list of two pages resolved from tokens written in descending order with
\* an overlap: "2,1-2"-like specifications
C1_Witness ==
  /\ ResolverReturned
  /\ Len(Tokens(args[1].pages)) >= 2
  /\ page_list[1] = <<1, 2>>
  /\ Tokens(args[1].pages)[1] = <<"2">>
  /\ args[1].fn = "render_pdf_to_images"

\* ------------------------------------------------------------------ C2
\* C2: when every token is a valid page or a valid range, the resolver returns
\* the ascending list of the union of the pages the tokens denote, each page
\* once, and the same list for the tokens in reverse order; "2-4,1" and
\* "1,3-5,7" with 10 pages give [1,2,3,4] and [1,3,4,5,7].
C2_SortedUnion ==
  LET ts == Tokens(args[1].pages)
      n == doc[1].page_count
  IN /\ (ResolverDone /\ ts # <<>>
           /\ \A i \in 1..Len(ts) : IsValidToken(ts[i], n)) =>
          /\ ResolverReturned
          /\ ListsAscending(page_list[1],
                            UNION {TokenPages(ts[i]) : i \in 1..Len(ts)})
          /\ Resolve(args[1].fn, JoinReversed(ts), n) = Returned(page_list[1])
     /\ (ResolverDone /\ n = 10 /\ args[1].pages = <<"2", "-", "4", ",", "1">>) =>
          (ResolverReturned /\ page_list[1] = <<1, 2, 3, 4>>)
     /\ (ResolverDone /\ n = 10 /\ args[1].pages = <<"1", ",", "3", "-", "5", ",", "7">>) =>
          (ResolverReturned /\ page_list[1] = <<1, 3, 4, 5, 7>>)

\* overlapping ranges "2-4,3-5" resolved to one list without repetition
C2_Witness ==
  /\ ResolverReturned
  /\ args[1].pages = <<"2", "-", "4", ",", "3", "-", "5">>
  /\ page_list[1] = <<2, 3, 4, 5>>

\* ------------------------------------------------------------------ C3
\* C3: with the page specification absent or empty the resolver returns
\* [1, ..., total_pages], for every total_pages >= 1.
C3_AllPages ==
  (ResolverDone /\ args[1].pages \in {None, <<>>} /\ doc[1].page_count >= 1) =>
    /\ ResolverReturned
    /\ Len(page_list[1]) = doc[1].page_count
    /\ \A i \in 1..Len(page_list[1]) : page_list[1][i] = i

\* the empty string resolved against 10 pages
C3_Witness ==
  /\ ResolverReturned
  /\ args[1].pages = <<>>
  /\ page_list[1] = <<1, 2, 3, 4, 5, 6, 7, 8, 9, 10>>

\* ------------------------------------------------------------------ C4, C5, C6
\* a token without hyphen that reads as an integer, and a token whose two
\* sides of the first hyphen read as integers
IsIntegerToken(t) == ~Contains(t, "-") /\ PyInt(t).ok

IntegerValue(t) == PyInt(t).val

IsRangeToken(t) ==
  /\ Contains(t, "-")
  /\ PyInt(SplitFirst(t, "-")[1]).ok
  /\ PyInt(SplitFirst(t, "-")[2]).ok

RangeA(t) == PyInt(SplitFirst(t, "-")[1]).val

RangeB(t) == PyInt(SplitFirst(t, "-")[2]).val

InBoundsRange(t, n) == 1 <= RangeA(t) /\ RangeA(t) <= RangeB(t) /\ RangeB(t) <= n

\* a single integer out of 1..n, a range violating 1 <= a <= b <= n, a token
\* that is neither an integer nor a range
BadNumber(t, n) ==
  IsIntegerToken(t) /\ (IntegerValue(t) < 1 \/ IntegerValue(t) > n)

BadRange(t, n) == IsRangeToken(t) /\ ~InBoundsRange(t, n)

Malformed(t) == ~IsIntegerToken(t) /\ ~IsRangeToken(t)

\* a token the resolver takes pages from
GoodToken(t, n) ==
  \/ IsIntegerToken(t) /\ ~BadNumber(t, n)
  \/ IsRangeToken(t) /\ InBoundsRange(t, n)

InvalidPageNumber(t) ==
  Exc("ValueError", "Invalid page number", IntToStr(IntegerValue(t)))

InvalidPageRange(t) == Exc("ValueError", "Invalid page range", t)

\* C4 as stated: any out-of-range single integer among the tokens makes the
\* resolver fail with "Invalid page number" for such a token, whatever the
\* other tokens are. Stated for total_pages >= 1 and specifications in which
\* every token is an integer or a range.
C4_AnyBadNumber ==
  LET ts == Tokens(args[1].pages)
      n == doc[1].page_count
  IN (/\ ResolverDone
      /\ n >= 1
      /\ \A i \in 1..Len(ts) : ~Malformed(ts[i])
      /\ \E i \in 1..Len(ts) : BadNumber(ts[i], n)) =>
       /\ ResolverRaised
       /\ \E i \in 1..Len(ts) :
            BadNumber(ts[i], n) /\ result[1].exc = InvalidPageNumber(ts[i])

\* C4 amended: an out-of-range single integer among the tokens means no page
\* list is returned; the error is "Invalid page number" with that integer when
\* every token before it is valid (otherwise the error of the first invalid
\* token is raised); "0" and "6" with 5 pages fail this way.
C4_FirstBadNumber ==
  LET ts == Tokens(args[1].pages)
      n == doc[1].page_count
  IN /\ (ResolverDone /\ \E i \in 1..Len(ts) : BadNumber(ts[i], n)) =>
          (ResolverRaised /\ page_list[1] = <<>>)
     /\ \A i \in 1..Len(ts) :
          (/\ ResolverDone
           /\ BadNumber(ts[i], n)
           /\ \A j \in 1..(i - 1) : GoodToken(ts[j], n)) =>
            (ResolverRaised /\ result[1].exc = InvalidPageNumber(ts[i]))
     /\ (ResolverDone /\ n = 5 /\ args[1].pages \in {<<"0">>, <<"6">>}) =>
          (/\ ResolverRaised
           /\ result[1].exc.msg = "Invalid page number"
           /\ result[1].exc.arg = args[1].pages)

\* "1,0": the second token is out of range after a valid first one
C4_Witness ==
  /\ ResolverRaised
  /\ Tokens(args[1].pages) = <<<<"1">>, <<"0">>>>
  /\ doc[1].page_count = 2
  /\ result[1].exc = Exc("ValueError", "Invalid page number", <<"0">>)

\* C5 as stated: any range violating 1 <= a <= b <= total_pages among the
\* tokens makes the resolver fail with "Invalid page range" for such a token;
\* stated for total_pages >= 1 and specifications in which every token is an
\* integer or a range.
C5_AnyBadRange ==
  LET ts == Tokens(args[1].pages)
      n == doc[1].page_count
  IN (/\ ResolverDone
      /\ n >= 1
      /\ \A i \in 1..Len(ts) : ~Malformed(ts[i])
      /\ \E i \in 1..Len(ts) : BadRange(ts[i], n)) =>
       /\ ResolverRaised
       /\ \E i \in 1..Len(ts) :
            BadRange(ts[i], n) /\ result[1].exc = InvalidPageRange(ts[i])

\* C5 amended: a range violating 1 <= a <= b <= total_pages among the tokens
\* means no page list is returned; the error is "Invalid page range" with
\* that token when every token before it is valid (otherwise the error of the
\* first invalid token is raised); a lone range with a = b in 1..total_pages
\* resolves to [a].
C5_FirstBadRange ==
  LET ts == Tokens(args[1].pages)
      n == doc[1].page_count
  IN /\ (ResolverDone /\ \E i \in 1..Len(ts) : BadRange(ts[i], n)) =>
          (ResolverRaised /\ page_list[1] = <<>>)
     /\ \A i \in 1..Len(ts) :
          (/\ ResolverDone
           /\ BadRange(ts[i], n)
           /\ \A j \in 1..(i - 1) : GoodToken(ts[j], n)) =>
            (ResolverRaised /\ result[1].exc = InvalidPageRange(ts[i]))
     /\ (/\ ResolverDone
         /\ Len(ts) = 1
         /\ IsRangeToken(ts[1])
         /\ RangeA(ts[1]) = RangeB(ts[1])
         /\ 1 <= RangeA(ts[1]) /\ RangeA(ts[1]) <= n) =>
          (ResolverReturned /\ page_list[1] = <<RangeA(ts[1])>>)

\* "1,3-2" with 5 pages: the reversed range after a valid page
C5_Witness ==
  /\ ResolverRaised
  /\ args[1].pages = <<"1", ",", "3", "-", "2">>
  /\ doc[1].page_count = 5
  /\ result[1].exc = Exc("ValueError", "Invalid page range", <<"3", "-", "2">>)

\* C6: every malformed token makes the resolver fail with "Invalid page
\* number" or "Invalid page range", never with another error (stated for
\* total_pages >= 1).
C6_MalformedCategorised ==
  LET ts == Tokens(args[1].pages)
      n == doc[1].page_count
  IN (ResolverDone /\ n >= 1 /\ \E i \in 1..Len(ts) : Malformed(ts[i])) =>
       /\ ResolverRaised
       /\ result[1].exc.msg \in {"Invalid page number", "Invalid page range"}

\* ------------------------------------------------------------------ C7
\* C7: the page list handed to the render loop is never empty; no export
\* returns successfully with an empty page list (a zero-page document is
\* rejected instead).
C7_PageListNeverEmpty ==
  pc[1] \in {"exists", "makedirs", "page", "copy", "close", "returned"} =>
    page_list[1] # <<>>

\* ------------------------------------------------------------------ C8
\* C8: in every terminal state reached after the document was opened, the
\* document handle has been closed.
C8_HandleClosedOnExit ==
  (pc[1] \in {"returned", "raised"} /\ doc[1].state # "none") =>
    doc[1].state = "closed"

\* ------------------------------------------------------------------ C9
\* a regular file exists at path q of filesystem f
IsRegularFile(f, q) == q \in DOMAIN f /\ f[q].kind = "file"

\* C9: when the path is not an existing regular file the export raises
\* FileNotFoundError without having opened a document, and the filesystem is
\* as it was at the call: no directory, no PNG, no copy.
C9_NotFoundBeforeAnyEffect ==
  (pc[1] \notin {"idle", "isfile"} /\ ~IsRegularFile(fs0[1], args[1].pdf_path)) =>
    /\ pc[1] = "raised"
    /\ result[1].exc.type = "FileNotFoundError"
    /\ result[1].exc.arg = args[1].pdf_path
    /\ doc[1].state = "none"
    /\ saved[1] = <<>>
    /\ fs = fs0[1]

\* the path names a directory: it exists, and the export still reports it as
\* not found
C9_Witness ==
  /\ pc[1] = "raised"
  /\ result[1].exc.type = "FileNotFoundError"
  /\ args[1].pdf_path \in DOMAIN fs
  /\ fs[args[1].pdf_path].kind = "dir"
  /\ fs = fs0[1]

\* ------------------------------------------------------------------ C10
\* decimal digits of p, most significant first, and p padded with zeros to at
\* least 2 digits
DecimalWidth(p) ==
  IF p < 10 THEN 1 ELSE IF p < 100 THEN 2 ELSE IF p < 1000 THEN 3 ELSE 4

Decimal(p) ==
  [i \in 1..DecimalWidth(p) |->
     DigitChar((p \div Pow10(DecimalWidth(p) - i)) % 10)]

PaddedTo2(p) == IF DecimalWidth(p) < 2 THEN <<"0">> \o Decimal(p) ELSE Decimal(p)

\* the output directory of the two source paths of the large document; the
\* basename is "a" for both
ExpectedFolder(path) == IF path = PathSub THEN <<"d", "/", "a">> ELSE <<"a">>

\* <folder>/<basename>.png for a single page, <folder>/<basename>_p<NN>.png
\* otherwise
ExpectedPng(path, p, single) ==
  ExpectedFolder(path) \o <<"/", "a">>
    \o (IF single THEN <<>> ELSE <<"_", "p">> \o PaddedTo2(p))
    \o <<".", "p", "n", "g">>

PngFiles == {q \in DOMAIN fs : fs[q].data.fmt = "png"}

\* C10: with one page selected the export writes exactly one file,
\* <basename>.png; with two or more, page p goes to <basename>_p<NN>.png, NN
\* being p padded with zeros to at least 2 digits; the name of a page rendered
\* alone differs from its name in a multi-page selection.
C10_OutputNaming ==
  LET single == Len(page_list[1]) = 1
      path == args[1].pdf_path
  IN /\ \A i \in 1..Len(saved[1]) :
          /\ saved[1][i] = ExpectedPng(path, page_list[1][i], single)
          /\ saved[1][i] \in PngFiles
          /\ fs[saved[1][i]].data.page = page_list[1][i]
          /\ out_path(path, page_list[1][i], TRUE)
               # out_path(path, page_list[1][i], FALSE)
     /\ (pc[1] = "returned" /\ single) =>
          PngFiles = {ExpectedPng(path, page_list[1][1], TRUE)}
     /\ (pc[1] = "returned" /\ ~single) =>
          PngFiles = {ExpectedPng(path, page_list[1][i], FALSE) :
                        i \in 1..Len(page_list[1])}

\* pages 1 and 100 of d/a.pdf exported together: d/a/a_p01.png, d/a/a_p100.png
C10_Witness ==
  /\ pc[1] = "returned"
  /\ args[1].pdf_path = PathSub
  /\ saved[1] = <<<<"d", "/", "a", "/", "a", "_", "p", "0", "1", ".", "p", "n", "g">>,
                  <<"d", "/", "a", "/", "a", "_", "p", "1", "0", "0", ".", "p", "n", "g">>>>

\* ------------------------------------------------------------------ C11
\* the list is strictly ascending
StrictlyAscending(q) == \A i \in 1..Len(q) - 1 : q[i] < q[i + 1]

\* the copies of a source document that lie in filesystem f elsewhere than
\* at the source path itself
ArchivedCopies(f, src) ==
  {q \in DOMAIN f : q # src /\ f[q].kind = "file" /\ f[q].data.fmt = "pdf"}

\* C11: a successful export returns exactly one path per selected page, in
\* ascending page order, each the path of the PNG written for that page; the
\* path of the archived copy of the source is not in the returned list.
C11_ReturnsWrittenPngs ==
  pc[1] = "returned" =>
    /\ result[1].ok
    /\ Len(result[1].val) = Len(page_list[1])
    /\ StrictlyAscending(page_list[1])
    /\ \A i \in 1..Len(result[1].val) :
         /\ result[1].val[i] \in DOMAIN fs
         /\ fs[result[1].val[i]].kind = "file"
         /\ fs[result[1].val[i]].data.fmt = "png"
         /\ fs[result[1].val[i]].data.page = page_list[1][i]
         /\ result[1].val[i] \notin ArchivedCopies(fs, args[1].pdf_path)
    /\ \A i, j \in 1..Len(result[1].val) :
         i # j => result[1].val[i] # result[1].val[j]

\* two pages exported, the copy of the source in the directory, and two paths
\* returned
C11_Witness ==
  /\ pc[1] = "returned"
  /\ Len(page_list[1]) = 2
  /\ Len(result[1].val) = 2
  /\ ArchivedCopies(fs, args[1].pdf_path) # {}

\* ------------------------------------------------------------------ C12
\* the entries of filesystem f below the output directory of source src that
\* are not page images
NonPngInFolder(f, src) ==
  {q \in DOMAIN f :
     /\ Len(q) > Len(folder_name(src)) + 1
     /\ SubSeq(q, 1, Len(folder_name(src)) + 1) = folder_name(src) \o <<"/">>
     /\ f[q].data.fmt # "png"}

\* C12: after a successful export of a source the output directory holds
\* exactly one archived copy, and its bytes equal the bytes of the source.
C12_CopyEqualsSource ==
  (pc[1] = "returned" /\ page_list[1] # <<>>) =>
    /\ NonPngInFolder(fs, args[1].pdf_path) = {pdf_copy_path(args[1].pdf_path)}
    /\ fs[pdf_copy_path(args[1].pdf_path)] = fs[args[1].pdf_path]

\* ------------------------------------------------------------------ C13
\* the output directory followed by the file name of the source, extension
\* included
CopyUnderOriginalName(src) == join(folder_name(src), basename(src))

\* C13: the copy an export makes is stored in the output directory under the
\* file name of the source, extension included, whatever that extension is.
C13_CopyKeepsFileName ==
  (pc[1] = "returned" /\ page_list[1] # <<>>
     /\ NonPngInFolder(fs0[1], args[1].pdf_path) = {}) =>
    /\ CopyUnderOriginalName(args[1].pdf_path) \in DOMAIN fs
    /\ fs[CopyUnderOriginalName(args[1].pdf_path)] = fs[args[1].pdf_path]
    /\ NonPngInFolder(fs, args[1].pdf_path)
         = {CopyUnderOriginalName(args[1].pdf_path)}

\* ------------------------------------------------------------------ C14
\* a directory stands at path q of filesystem f
IsDirectory(f, q) == q \in DOMAIN f /\ f[q].kind = "dir"

\* C14: whenever the export of an existing source file stands at its page
\* loop, a directory exists at the source path with the extension stripped,
\* also when that path is the source path itself or held a non-directory.
C14_DirectoryBeforeFirstPage ==
  (pc[1] = "page" /\ IsRegularFile(fs0[1], args[1].pdf_path)) =>
    IsDirectory(fs, folder_name(args[1].pdf_path))

\* ------------------------------------------------------------------ C15
\* the export of invocation 1 was aborted by its page loop: at page number
\* Len(saved) + 1 of the selection the rasteriser failed or the file could
\* not be written
PageFailed ==
  /\ pc[1] = "raised"
  /\ Len(saved[1]) < Len(page_list[1])
  /\ \/ result[1].exc.type = "RuntimeError"
     \/ result[1].exc.arg =
          out_path(args[1].pdf_path, page_list[1][Len(saved[1]) + 1],
                   Len(page_list[1]) = 1)

\* path q is in filesystem g what it is in filesystem f: absent, or the same
\* entry
SameAt(f, g, q) ==
  (q \in DOMAIN f <=> q \in DOMAIN g) /\ (q \in DOMAIN f => f[q] = g[q])

\* C15: when the k-th selected page fails the export stops there: the PNGs of
\* the k - 1 earlier pages are on disk as written, no file of page k or of a
\* later page was written, the archived copy was not made by this run, and
\* nothing else the run found on disk was changed.
C15_NoRollback ==
  PageFailed =>
    LET k == Len(saved[1]) + 1
        single == Len(page_list[1]) = 1
        src == args[1].pdf_path
    IN /\ \A i \in 1..k - 1 :
            /\ saved[1][i] = out_path(src, page_list[1][i], single)
            /\ saved[1][i] \in DOMAIN fs
            /\ fs[saved[1][i]].kind = "file"
            /\ fs[saved[1][i]].data.fmt = "png"
            /\ fs[saved[1][i]].data.page = page_list[1][i]
       /\ \A i \in k..Len(page_list[1]) :
            SameAt(fs0[1], fs, out_path(src, page_list[1][i], single))
       /\ SameAt(fs0[1], fs, pdf_copy_path(src))
       /\ \A q \in DOMAIN fs0[1] :
            (\A i \in 1..k - 1 : q # saved[1][i]) => fs[q] = fs0[1][q]

\* the second of two selected pages fails: the PNG of the first is on disk
C15_Witness ==
  /\ PageFailed
  /\ result[1].exc.type = "RuntimeError"
  /\ Len(page_list[1]) = 2
  /\ Len(saved[1]) = 1
  /\ saved[1][1] \in DOMAIN fs
  /\ saved[1][1] \notin DOMAIN fs0[1]

\* ------------------------------------------------------------------ C16
\* text s ends with text t
EndsWith(s, t) ==
  Len(t) <= Len(s) /\ SubSeq(s, Len(s) - Len(t) + 1, Len(s)) = t

\* C16: when the command-line process has exited, render was called exactly
\* once; if it raised, exactly one message, carrying that exception, is on
\* standard error, nothing is on standard output and the status is not 0; if
\* it returned, every returned path is printed on its own line of standard
\* output, in order, nothing is on standard error and the status is 0.
C16_CliExit ==
  pc[1] = "exited" =>
    /\ cli[1].exited
    /\ runs = 1
    /\ ~result[1].ok =>
         /\ result[1].exc # NoExc
         /\ Len(cli[1].stderr) = 1
         /\ cli[1].stderr[1].exc = result[1].exc
         /\ cli[1].stdout = <<>>
         /\ cli[1].status # 0
    /\ result[1].ok =>
         /\ cli[1].stderr = <<>>
         /\ cli[1].status = 0
         /\ Len(cli[1].stdout) <= Len(result[1].val) + 1
         /\ \A i \in 1..Len(result[1].val) :
              EndsWith(cli[1].stdout[Len(cli[1].stdout) - Len(result[1].val) + i],
                       <<" ">> \o result[1].val[i])

\* an invalid page specification given on the command line: one message on
\* standard error, status 1
C16_Witness ==
  /\ pc[1] = "exited"
  /\ result[1].exc.type = "ValueError"
  /\ Len(cli[1].stderr) = 1
  /\ cli[1].status = 1

\* ------------------------------------------------------------------ C17
\* C17: whenever the export stands at its page loop with a page to render,
\* the resolution is positive: no page is rasterised with a scale factor
\* dpi / 72 that is zero or negative.
C17_DpiPositive ==
  (pc[1] = "page" /\ Len(saved[1]) < Len(page_list[1])
     /\ IsDirectory(fs, folder_name(args[1].pdf_path))) =>
    args[1].dpi > 0

\* ------------------------------------------------------------------ C18
\* C18: with grayscale requested a raster of more than one channel is saved
\* with exactly 1 channel and a raster of 1 channel is saved as it is;
\* without it a raster is saved with the channels it was rendered with. Every
\* PNG an export has written has 1 channel when grayscale was requested and
\* the 3 channels of the rendered RGB raster otherwise.
C18_GrayscaleRule ==
  /\ \A n \in ChannelCounts :
       /\ n > 1 => pix_n(TRUE, n) = 1
       /\ n = 1 => pix_n(TRUE, n) = n
       /\ pix_n(FALSE, n) = n
  /\ \A i \in 1..Len(saved[1]) :
       /\ fs[saved[1][i]].data.fmt = "png"
       /\ fs[saved[1][i]].data.n = IF args[1].grayscale THEN 1 ELSE 3

\* a page exported with grayscale requested: the PNG on disk has 1 channel
C18_Witness ==
  /\ args[1].grayscale
  /\ saved[1] # <<>>
  /\ fs[saved[1][1]].data.n = 1

\* ------------------------------------------------------------------ C19
\* C19: of two exports of the same source running concurrently neither
\* fails, whatever the interleaving of their existence checks and their
\* create-directory and copy steps; when both have returned, the output
\* directory holds the PNGs they returned and one archived copy with the
\* bytes of the source.
C19_BenignRace ==
  /\ \A p \in Procs : pc[p] # "raised"
  /\ (\A p \in Procs : pc[p] = "returned") =>
       /\ \A p \in Procs : \A i \in 1..Len(result[p].val) :
            /\ result[p].val[i] \in DOMAIN fs
            /\ fs[result[p].val[i]].data.fmt = "png"
       /\ NonPngInFolder(fs, PathPdf) = {pdf_copy_path(PathPdf)}
       /\ fs[pdf_copy_path(PathPdf)] = fs[PathPdf]

\* ------------------------------------------------------------------ C20
\* invocation p is leaving its call of the resolver
ResolverStep(p) == pc[p] = "pages" /\ pc'[p] # "pages"

\* what the call of invocation p came to: where it went on, the list, the
\* error
ResolverOutcome(p) == <<pc[p], page_list[p], result[p]>>

ResolverVerdict == Resolve(args[1].fn, args[1].pages, doc[1].page_count)

\* C27: when the page specification is invalid for the page count of the
\* opened document, the export ends with the very exception the resolver
\* raised, and the filesystem is as it was at the call: no directory, no PNG,
\* no copy.
C27_ResolverFailureFirst ==
  (pc[1] \notin {"idle", "isfile", "open", "pages"} /\ doc[1].state = "open"
     /\ ~ResolverVerdict.ok) =>
    /\ pc[1] = "raised"
    /\ result[1] = Raised(ResolverVerdict.exc)
    /\ page_list[1] = <<>>
    /\ saved[1] = <<>>
    /\ fs = fs0[1]
    /\ ~IsDirectory(fs, folder_name(args[1].pdf_path))
         \/ IsDirectory(fs0[1], folder_name(args[1].pdf_path))

\* page 2 asked of a.pdf, a document of one page, with no directory a before
\* or after
C27_Witness ==
  /\ pc[1] = "raised"
  /\ args[1].pdf_path = PathPdf
  /\ args[1].pages = <<"2">>
  /\ doc[1].page_count = 1
  /\ result[1].exc.type = "ValueError"
  /\ result[1].exc.msg = "Invalid page number"
  /\ DOMAIN fs = {PathPdf}

\* ------------------------------------------------------------------ C28
\* the hyphens of token t, and its text before and after the first of them
HyphenCount(t) == Cardinality({i \in 1..Len(t) : t[i] = "-"})

BeforeFirstHyphen(t) == SubSeq(t, 1, Find(t, "-") - 1)

AfterFirstHyphen(t) == SubSeq(t, Find(t, "-") + 1, Len(t))

\* C28: a page specification with a token of more than one hyphen makes the
\* resolver fail with ValueError, so no such token contributes pages to a
\* returned list; when that token is the first one, the error is the one of
\* the token cut at its first hyphen: the text before it, or else the text
\* after it, is no integer, or else the range is invalid.
C28_MultiHyphenFails ==
  LET ts == Tokens(args[1].pages) IN
  (ResolverDone /\ \E i \in 1..Len(ts) : HyphenCount(ts[i]) >= 2) =>
    /\ ResolverRaised
    /\ page_list[1] = <<>>
    /\ result[1].exc.type = "ValueError"
    /\ HyphenCount(ts[1]) >= 2 =>
         result[1].exc =
           IF ~PyInt(BeforeFirstHyphen(ts[1])).ok
           THEN IntLiteralError(BeforeFirstHyphen(ts[1]))
           ELSE IF ~PyInt(AfterFirstHyphen(ts[1])).ok
           THEN IntLiteralError(AfterFirstHyphen(ts[1]))
           ELSE InvalidPageRange(ts[1])

\* "1-2-" on 2 pages: 1 before the first hyphen, "2-" after it is no integer
C28_Witness ==
  /\ ResolverRaised
  /\ args[1].pages = <<"1", "-", "2", "-">>
  /\ doc[1].page_count = 2
  /\ result[1].exc = IntLiteralError(<<"2", "-">>)

\* ------------------------------------------------------------------ C29
\* C29: the PNG paths one export has written are pairwise distinct, none is
\* the path of the archived copy, and each still holds the page it was
\* written for; the export of a single page writes a path that does not
\* depend on the page, so that it replaces what an earlier export of another
\* page left there.
C29_NoCollisionWithinRun ==
  /\ \A i, j \in 1..Len(saved[1]) : i # j => saved[1][i] # saved[1][j]
  /\ \A i \in 1..Len(saved[1]) :
       /\ saved[1][i] # pdf_copy_path(args[1].pdf_path)
       /\ fs[saved[1][i]].data.fmt = "png"
       /\ fs[saved[1][i]].data.page = page_list[1][i]
  /\ (Len(page_list[1]) = 1 /\ Len(saved[1]) = 1) =>
       /\ EndsWith(saved[1][1], <<"/", "a", ".", "p", "n", "g">>)
       /\ \A q \in 1..MaxPages :
            out_path(args[1].pdf_path, q, TRUE) = saved[1][1]

\* page 2 exported alone after page 1 was exported alone: the file that held
\* page 1 at the call now holds page 2
C29_Witness ==
  /\ runs = 2
  /\ page_list[1] = <<2>>
  /\ Len(saved[1]) = 1
  /\ saved[1][1] \in DOMAIN fs0[1]
  /\ fs0[1][saved[1][1]].data.page = 1
  /\ fs[saved[1][1]].data.page = 2

\* ------------------------------------------------------------------ C30
\* path q of the export of a.pdf, as the export of d/a.pdf has it
Mirror(q) == <<"d", "/">> \o q

\* the paths of the filesystem on the side of a.pdf and on the side of
\* d/a.pdf
SideOne == {q \in DOMAIN fs : Head(q) # "d"}

SideTwo == {q \in DOMAIN fs : Len(q) > 2 /\ SubSeq(q, 1, 2) = <<"d", "/">>}

\* how far invocation p has come: its position and the pages it has written
Progress(p) == <<pc[p], Len(saved[p])>>

PromptIds == {None, <<>>, <<"p">>}

FileIds == {None, <<>>, <<"f">>}

\* image id lists the caller passes
ImageLists ==
  {NoIds, Ids(<<>>),
   Ids(<< <<"i">>, <<"j">>, <<"k">> >>),
   Ids(<< <<>>, <<"i">>, <<"j">> >>),
   Ids(<< <<" ">>, <<"i">> >>),
   Ids(<< None, <<"j">> >>)}

ExtractionCalls ==
  {ExtractionArgs(p, f, i, d) :
     p \in PromptIds, f \in FileIds, i \in ImageLists, d \in BOOLEAN}

\* a process that imports the extraction modules and calls them with the
\* arguments it was started with, in an environment that may or may not hold
\* the key; the export side is at rest
InitExtract ==
  /\ fs = World(PathPdf, DocData(1))
  /\ pc = [p \in Procs |-> "idle"]
  /\ args = [p \in Procs |-> NoArgs]
  /\ doc = [p \in Procs |-> NoDoc]
  /\ page_list = [p \in Procs |-> <<>>]
  /\ saved = [p \in Procs |-> <<>>]
  /\ result = [p \in Procs |-> NoResult]
  /\ fs0 = [p \in Procs |-> fs]
  /\ runs = 0
  /\ cli = [p \in Procs |-> NoCli]
  /\ api_key \in Keys
  /\ loaded = [m \in Mods |-> FALSE]
  /\ client = [m \in Mods |-> NoClient]
  /\ clients_made = [m \in Mods |-> 0]
  /\ api_calls = 0
  /\ out_files = {}
  /\ ops = 0
  /\ argv \in ExtractionCalls
  /\ response = NoInvocation
  /\ last = NoOp

NextExtract ==
  \/ \E m \in Mods : ImportModule(m)
  \/ \E k \in Keys : SetKey(k)
  \/ \E m \in Mods : CallGetClient(m)
  \/ \E m \in Mods : RunExtraction(m)

SpecExtract == InitExtract /\ [][NextExtract]_vars

\* ------------------------------------------------------------------ C21
\* the last operation was a call of get_client / get_openai_client
GotClient == last.op = "get_client"

Extracted == last.op = "run_extraction"

\* C23: with dry_run true, run_extraction returns a dict of status
\* "dry-run", whatever prompt_id, file_id and image_ids are and whether or
\* not the key is set: it makes no client, sends no request and writes no
\* extracted_fields file.
C23_DryRunTouchesNothing ==
  Extracted /\ last.args.dry_run =>
    /\ "status" \in last.ret.keys
    /\ last.ret.status = "dry-run"
    /\ "error" \notin last.ret.keys
    /\ client[last.m] = last.before.client
    /\ clients_made[last.m] = last.before.made
    /\ last.request = NoRequest
    /\ api_calls = last.before.api_calls
    /\ last.wrote = <<>>
    /\ out_files = last.before.out_files

\* a dry run with the key unset and no client cached, all ids given
C23_Witness ==
  /\ Extracted
  /\ last.args.dry_run
  /\ last.before.key = None
  /\ last.before.client = NoClient
  /\ Truthy(last.args.prompt_id)
  /\ Truthy(last.args.file_id)
  /\ last.args.image_ids.given
  /\ last.ret.status = "dry-run"

\* ------------------------------------------------------------------ C24
\* the ids a dry run with the arguments of the last call reports
ReportedPrompt == Or(last.args.prompt_id, HARDCODE_PROMPT_ID)

ReportedFile == Or(last.args.file_id, HARDCODE_FILE)

\* the file ids of the input_file entries of the request sent
SentFiles ==
  {last.request.content[i].file_id :
     i \in {j \in DOMAIN last.request.content :
              last.request.content[j].type = "input_file"}}

\* C24: prompt_id and file_id fall back to their embedded defaults one
\* independently of the other: a request sent by run_extraction carries the
\* caller's prompt id when one was given and the default otherwise, and as
\* its input file the caller's file id when one was given and the default
\* otherwise, which are the ids a dry run with the same arguments reports.
C24_IndependentFallback ==
  Extracted /\ ~last.args.dry_run /\ last.request # NoRequest =>
    /\ last.request.prompt = ReportedPrompt
    /\ SentFiles = {ReportedFile}

\* ------------------------------------------------------------------ C25
\* the dict the last call returned reports a failure
ErrorResult ==
  /\ last.ret.keys = {"messages", "extraction_result", "json_output", "error"}
  /\ last.ret.extraction_result = "None"
  /\ last.ret.json_output = None
  /\ last.ret.error # <<>>

\* the dict the last call returned carries an extraction and no error
SuccessResult ==
  /\ last.ret.keys = {"messages", "extraction_result", "json_output"}
  /\ last.ret.extraction_result # "None"
  /\ last.ret.json_output # None

\* C25: a call of run_extraction that is not a dry run returns a dict
\* whatever the client and the API do. With no client cached and the key
\* missing, no client is to be had; when no client is to be had, when the
\* request fails or when the response carries nothing parsed, the dict has
\* extraction_result and json_output None and a non-empty error; when the
\* response carries a parsed result the dict has the extraction and its JSON
\* and no error key, whether both extracted_fields files were written, only
\* the first, or none.
C25_FailuresBecomeErrorResults ==
  Extracted /\ ~last.args.dry_run =>
    /\ last.event \in {"no_client", "api_error", "no_parse", "parsed"}
    /\ last.before.client = NoClient /\ ~Truthy(last.before.key) =>
         last.event = "no_client"
    /\ last.event \in {"no_client", "api_error", "no_parse"} =>
         ErrorResult /\ last.wrote = <<>>
    /\ last.event = "no_client" => last.request = NoRequest
    /\ last.event = "parsed" => SuccessResult

\* a parsed extraction none of whose files could be written, returned as a
\* success
C25_Witness ==
  /\ Extracted
  /\ ~last.args.dry_run
  /\ last.event = "parsed"
  /\ last.wrote = <<>>
  /\ out_files = last.before.out_files
  /\ SuccessResult

\* ------------------------------------------------------------------ C26
\* the image ids the caller gave (none when image_ids is None)
GivenImages == IF last.args.image_ids.given THEN last.args.image_ids.ids ELSE <<>>

\* input_image entries for the ids of a list that are not empty, in order
RECURSIVE NonEmptyImages(_)
NonEmptyImages(ids) ==
  IF ids = <<>> THEN <<>>
  ELSE (IF Head(ids) = None \/ Head(ids) = <<>> THEN <<>>
        ELSE <<InputImage(Head(ids))>>)
         \o NonEmptyImages(Tail(ids))

\* C26: when prompt_id and file_id are both given, the content of the
\* request is one input_file entry for file_id followed by the input_image
\* entries of the first two elements of image_ids, in their order, leaving
\* out those that are empty; nothing else is sent.
C26_ContentFromFirstTwo ==
  /\ Extracted
  /\ ~last.args.dry_run
  /\ Truthy(last.args.prompt_id)
  /\ Truthy(last.args.file_id)
  /\ last.request # NoRequest
  => last.request.content =
       <<InputFile(last.args.file_id)>>
         \o NonEmptyImages(SubSeq(GivenImages, 1,
                                  IF Len(GivenImages) < 2 THEN Len(GivenImages)
                                  ELSE 2))

\* ------------------------------------------------------------------ lambda runs
\* payloads the caller sends
Payloads ==
  {Payload(s, p, f, i, d) :
     s \in {None, <<>>} \cup ScriptPaths,
     p \in {None, <<"p">>},
     f \in {None, <<"f">>},
     i \in {NoIds, Ids(<< <<"i">> >>)},
     d \in {"absent", "True", "'false'"}}

\* events: the payload as the event itself, as a dict under body, as JSON
\* text under body; a body that is empty, that is a JSON array, that is not
\* JSON, that is neither a string nor a dict
Events ==
  {Event("none", NoText, p) : p \in Payloads}
    \cup {Event("dict", NoText, p) : p \in Payloads}
    \cup {Event("str", JsonText("object", p), EmptyPayload) : p \in Payloads}
    \cup {Event("str", NoText, EmptyPayload),
          Event("str", JsonText("array", EmptyPayload), EmptyPayload),
          Event("str", JsonText("invalid", EmptyPayload), EmptyPayload),
          Event("other", NoText, EmptyPayload)}

\* what the run_extraction of extract.py returns
ScriptResults == {"dry_run_dict", "result_dict", "None"}

\* the Lambda runtime invokes handler copy h on the event of the behaviour
LambdaInvoke(h) ==
  /\ \E r \in ScriptResults :
       response' = Invocation(h, response.event,
                              lambda_handler(h, response.event, r))
  /\ UNCHANGED <<api_key, loaded, client, clients_made, api_calls, out_files,
                 ops, argv, last, rvars>>

\* a Lambda process that is delivered an event, to one handler copy or the
\* other; the export side is at rest
InitLambda ==
  /\ fs = World(PathPdf, DocData(1))
  /\ pc = [p \in Procs |-> "idle"]
  /\ args = [p \in Procs |-> NoArgs]
  /\ doc = [p \in Procs |-> NoDoc]
  /\ page_list = [p \in Procs |-> <<>>]
  /\ saved = [p \in Procs |-> <<>>]
  /\ result = [p \in Procs |-> NoResult]
  /\ fs0 = [p \in Procs |-> fs]
  /\ runs = 0
  /\ cli = [p \in Procs |-> NoCli]
  /\ api_key = None
  /\ loaded = [m \in Mods |-> FALSE]
  /\ client = [m \in Mods |-> NoClient]
  /\ clients_made = [m \in Mods |-> 0]
  /\ api_calls = 0
  /\ out_files = {}
  /\ ops = 0
  /\ argv = NoExtractionArgs
  /\ response \in {Invocation("", e, NoResponse) : e \in Events}
  /\ last = NoOp

NextLambda == \E h \in Handlers : LambdaInvoke(h)

SpecLambda == InitLambda /\ [][NextLambda]_vars

\* ------------------------------------------------------------------ C22
\* a handler was invoked
Invoked == response.handler \in Handlers

\* the event carries a payload: it is the payload, or its body is one, as a
\* dict, as the JSON text of an object, or as the empty string (no keys)
CarriesPayload ==
  \/ response.event.body \in {"none", "dict"}
  \/ response.event.body = "str" /\ response.event.text.form \in {"object", "empty"}

\* the payload the event carries
Carried ==
  IF response.event.body \in {"none", "dict"} THEN response.event.fields
  ELSE IF response.event.text.form = "object" THEN response.event.text.fields
  ELSE EmptyPayload

\* the payload names a script
NamesScript == Carried.script # None /\ Carried.script # <<>>

StatusCode == response.resp.statusCode

====
